---- MODULE Spec2Model ----
(***************************************************************************)
(* Transfer-agent market analysis: the resolution pipeline of              *)
(* src/src/pipeline.py (time series and change detection),                 *)
(* src/src/normalise.py (fuzzy canonicalisation), and                      *)
(* src/MarketShare.py / src/issuer_count.py (brand collapsing and the      *)
(* current-agent selection).                                               *)
(***************************************************************************)
EXTENDS Integers, Sequences, FiniteSets, TLC

VARIABLES
    stage,          \* position of the run: which handler has acted
    df,             \* the DataFrame handed to analyze_transfer_agent_evolution
    company_data,   \* per cik: df[df.cik == cik].sort_values('period_end')
    insights,       \* evolution_insights returned by the analysis
    name,           \* the entity name handed to brand_of
    brand,          \* what brand_of returned for it
    raw_name,       \* normalise_agent_name's raw_name
    canonical_agents,     \* the taxonomy: canonical name -> variants, in file order
    similarity_threshold, \* normalise_agent_name's similarity_threshold
    normalised,     \* the pair (canonical_name, score) it returned
    all_regs,       \* MarketShare.py: the registrations (CIK, ENTITYNAME, FILING_DATE)
    current,        \* MarketShare.py: all_regs.loc[idx], the row kept per CIK
    brand_counts,   \* MarketShare.py: the table (Brand, NumCompanies)
    total_issuers,  \* MarketShare.py: current['CIK'].nunique()
    all_df,         \* issuer_count.py: the deduplicated (CIK, ENTITYNAME) pairs
    filing_files,   \* the filing files on disk, in the order glob finds them
    parsing_results,    \* what parse_all_filings returned
    normalised_results, \* what normalise_parsing_results returned
    review_file,    \* review/unknown_agents.csv: its data lines, or no file
    final_dataset,  \* what create_final_dataset returned, or that it raised
    previous_run,   \* the files and the final dataset of the run before this one
    agent_stats,    \* what get_agent_statistics returned, in dict order
    shown,          \* the market-share lines main printed
    clock,          \* what datetime.utcnow() reads
    runs,           \* how many runs of the pipeline were started
    html_file,      \* the document handed to extract_transfer_agents
    text,           \* the plain text of one filing document
    mentions,       \* what extract_transfer_agents returned for it
    mentions_df,    \* calculate_market_share's df of mentions
    market_share,   \* the table it returned, or that it raised
    taxonomy,       \* pipeline main: the state of reference/agents.yaml
    performed,      \* pipeline main: the processing steps performed so far
    outcome,        \* pipeline main: how the run ended
    submissions,    \* identify_10k_filings: the submissions JSON files
    filings,        \* the filings identify_10k_filings returned
    running,        \* download_all_10ks: the futures not yet completed
    downloaded_files, \* download_all_10ks: the paths, in completion order
    attempt,        \* download_10k_document: the loop variable
    on_disk,        \* download_10k_document: whether the document file exists
    gets,           \* download_10k_document: the GET requests made so far, with their answers
    returned        \* download_10k_document: what it returned

evolutionVars == <<df, company_data, insights>>
brandVars     == <<name, brand>>
normaliseVars == <<raw_name, canonical_agents, similarity_threshold, normalised>>

shareVars     == <<all_regs, current, brand_counts, total_issuers, all_df>>
pipelineVars  == <<filing_files, parsing_results, normalised_results, review_file,
                   final_dataset, previous_run, agent_stats, shown, clock, runs>>
extractVars   == <<html_file, text, mentions>>
marketVars    == <<mentions_df, market_share>>

mainVars      == <<taxonomy, performed, outcome>>
identifyVars  == <<submissions, filings>>
workerVars    == <<running, downloaded_files>>
downloadVars  == <<attempt, on_disk, gets, returned>>
crawlVars     == <<mainVars, identifyVars, workerVars, downloadVars>>

vars == <<stage, evolutionVars, brandVars, normaliseVars, shareVars,
          pipelineVars, extractVars, marketVars, crawlVars>>

-----------------------------------------------------------------------------
(* Values *)

\* A Python str is the sequence of its characters.  Python None (pandas NaN
\* in an object column) where a str is expected is a value that is no str.
None == << "<None>" >>

\* The label normalise_agent_name gives a name it cannot match.
UNKNOWN == <<"U", "N", "K", "N", "O", "W", "N">>

\* A file that does not exist, and a call that raised instead of returning.
NoFile == << [no_file |-> TRUE] >>
Raised == << [raised |-> TRUE] >>

\* The variables of the parts a run does not touch.
PipelineIdle ==
    /\ filing_files = <<>>
    /\ parsing_results = <<>>
    /\ normalised_results = <<>>
    /\ review_file = NoFile
    /\ final_dataset = <<>>
    /\ previous_run = <<>>
    /\ agent_stats = <<>>
    /\ shown = <<>>
    /\ clock = 0
    /\ runs = 0

ExtractIdle == html_file = <<>> /\ text = <<>> /\ mentions = <<>>

MarketIdle == mentions_df = <<>> /\ market_share = <<>>

MainIdle == taxonomy = "" /\ performed = <<>> /\ outcome = ""

IdentifyIdle == submissions = <<>> /\ filings = <<>>

WorkersIdle == running = {} /\ downloaded_files = <<>>

DownloadIdle == attempt = 0 /\ on_disk = FALSE /\ gets = <<>> /\ returned = <<>>

CrawlIdle == MainIdle /\ IdentifyIdle /\ WorkersIdle /\ DownloadIdle

-----------------------------------------------------------------------------
(* Bounds *)

\* Longest single-subject DataFrame built row by row.
MaxTimeline == 4

\* Most pieces an entity name is put together from.
MaxPieces == 3

\* Longest raw name, and most canonical names in a taxonomy.
MaxRawLen == 4
MaxCanonicals == 2

\* Most registration rows collected over the quarters.
MaxRegs == 3

-----------------------------------------------------------------------------
(* Sequence helpers *)

Last(s) == s[Len(s)]

\* pandas Series.unique(): the distinct values in order of first appearance.
RECURSIVE Unique(_)
Unique(s) ==
    IF s = <<>> THEN <<>>
    ELSE LET front == Unique(SubSeq(s, 1, Len(s) - 1))
         IN  IF \E i \in DOMAIN front : front[i] = Last(s)
             THEN front
             ELSE Append(front, Last(s))

\* DataFrame.sort_values('period_end') with the default kind='quicksort',
\* which is not a stable sort: every ordering of the rows that is ascending
\* in period_end is an outcome; rows with equal period_end come in any order.
RECURSIVE SortedOrdersOf(_, _)
SortedOrdersOf(rows, idx) ==
    IF idx = {} THEN { <<>> }
    ELSE LET least == { i \in idx : \A j \in idx : rows[i].period_end <= rows[j].period_end }
         IN  UNION { { <<rows[i]>> \o t : t \in SortedOrdersOf(rows, idx \ {i}) } : i \in least }

sort_values_period_end(rows) == SortedOrdersOf(rows, DOMAIN rows)


-----------------------------------------------------------------------------
(* str methods *)

\* str.lower() on the letters A-Z; every other character is left as it is.
LowerCase ==
    [A |-> "a", B |-> "b", C |-> "c", D |-> "d", E |-> "e", F |-> "f", G |-> "g",
     H |-> "h", I |-> "i", J |-> "j", K |-> "k", L |-> "l", M |-> "m", N |-> "n",
     O |-> "o", P |-> "p", Q |-> "q", R |-> "r", S |-> "s", T |-> "t", U |-> "u",
     V |-> "v", W |-> "w", X |-> "x", Y |-> "y", Z |-> "z"]

lower(str) ==
    [i \in DOMAIN str |-> IF str[i] \in DOMAIN LowerCase THEN LowerCase[str[i]] ELSE str[i]]

\* Python's "sub in str".
Contains(str, sub) ==
    \E i \in 1..(Len(str) - Len(sub) + 1) : SubSeq(str, i, i + Len(sub) - 1) = sub

\* Python's str.startswith(prefix).
StartsWith(str, prefix) ==
    Len(str) >= Len(prefix) /\ SubSeq(str, 1, Len(prefix)) = prefix

-----------------------------------------------------------------------------
(* brand_of (src/MarketShare.py:10-22, the same in src/issuer_count.py:10-22) *)

kw_computershare == <<"c", "o", "m", "p", "u", "t", "e", "r", "s", "h", "a", "r", "e">>
kw_state_street == <<"s", "t", "a", "t", "e", " ", "s", "t", "r", "e", "e", "t">>
kw_bny_mellon == <<"b", "n", "y", " ", "m", "e", "l", "l", "o", "n">>
kw_pershing == <<"p", "e", "r", "s", "h", "i", "n", "g">>
kw_jpmorgan == <<"j", "p", "m", "o", "r", "g", "a", "n">>
kw_equiniti == <<"e", "q", "u", "i", "n", "i", "t", "i">>
kw_fidelity == <<"f", "i", "d", "e", "l", "i", "t", "y">>
kw_vanguard == <<"v", "a", "n", "g", "u", "a", "r", "d">>
kw_american_funds == <<"a", "m", "e", "r", "i", "c", "a", "n", " ", "f", "u", "n", "d", "s">>
kw_capital_group == <<"c", "a", "p", "i", "t", "a", "l", " ", "g", "r", "o", "u", "p">>
kw_dst == <<"d", "s", "t", " ">>

Brand_Computershare == <<"C", "o", "m", "p", "u", "t", "e", "r", "s", "h", "a", "r", "e">>
Brand_State_Street == <<"S", "t", "a", "t", "e", " ", "S", "t", "r", "e", "e", "t">>
Brand_BNY_Mellon == <<"B", "N", "Y", " ", "M", "e", "l", "l", "o", "n">>
Brand_Equiniti == <<"E", "q", "u", "i", "n", "i", "t", "i">>
Brand_Fidelity == <<"F", "i", "d", "e", "l", "i", "t", "y">>
Brand_Vanguard == <<"V", "a", "n", "g", "u", "a", "r", "d">>
Brand_American_Funds == <<"A", "m", "e", "r", "i", "c", "a", "n", " ", "F", "u", "n", "d", "s">>
Brand_DST == <<"D", "S", "T">>

\* Mutant: the Equiniti rule is tried before the BNY Mellon rule.
brand_of_equiniti_first(entity) ==
    LET n == lower(IF entity = None THEN <<>> ELSE entity)
    IN  IF Contains(n, kw_computershare) THEN Brand_Computershare
        ELSE IF Contains(n, kw_state_street) THEN Brand_State_Street
        ELSE IF Contains(n, kw_equiniti) THEN Brand_Equiniti
        ELSE IF \E x \in {kw_bny_mellon, kw_pershing, kw_jpmorgan} : Contains(n, x)
             THEN Brand_BNY_Mellon
        ELSE IF Contains(n, kw_fidelity) THEN Brand_Fidelity
        ELSE IF Contains(n, kw_vanguard) THEN Brand_Vanguard
        ELSE IF Contains(n, kw_american_funds) \/ Contains(n, kw_capital_group)
             THEN Brand_American_Funds
        ELSE IF StartsWith(n, kw_dst) THEN Brand_DST
        ELSE entity

\* Mutant: the fallback returns the lower-cased name n instead of the name.
brand_of_lowered_fallback(entity) ==
    LET n == lower(IF entity = None THEN <<>> ELSE entity)
    IN  IF Contains(n, kw_computershare) THEN Brand_Computershare
        ELSE IF Contains(n, kw_state_street) THEN Brand_State_Street
        ELSE IF \E x \in {kw_bny_mellon, kw_pershing, kw_jpmorgan} : Contains(n, x)
             THEN Brand_BNY_Mellon
        ELSE IF Contains(n, kw_equiniti) THEN Brand_Equiniti
        ELSE IF Contains(n, kw_fidelity) THEN Brand_Fidelity
        ELSE IF Contains(n, kw_vanguard) THEN Brand_Vanguard
        ELSE IF Contains(n, kw_american_funds) \/ Contains(n, kw_capital_group)
             THEN Brand_American_Funds
        ELSE IF StartsWith(n, kw_dst) THEN Brand_DST
        ELSE n

brand_of(entity) ==
    LET n == lower(IF entity = None THEN <<>> ELSE entity)
    IN  IF Contains(n, kw_computershare) THEN Brand_Computershare
        ELSE IF Contains(n, kw_state_street) THEN Brand_State_Street
        ELSE IF \E x \in {kw_bny_mellon, kw_pershing, kw_jpmorgan} : Contains(n, x)
             THEN Brand_BNY_Mellon
        ELSE IF Contains(n, kw_equiniti) THEN Brand_Equiniti
        ELSE IF Contains(n, kw_fidelity) THEN Brand_Fidelity
        ELSE IF Contains(n, kw_vanguard) THEN Brand_Vanguard
        ELSE IF Contains(n, kw_american_funds) \/ Contains(n, kw_capital_group)
             THEN Brand_American_Funds
        ELSE IF StartsWith(n, kw_dst) THEN Brand_DST
        ELSE entity

BrandIdle == name = <<>> /\ brand = <<>>

\* Pieces of registrant names, as they occur in TA_SERVICE_COMPANIES.tsv.
NamePieces ==
    { <<"C", "o", "m", "p", "u", "t", "e", "r", "s", "h", "a", "r", "e">>,
      <<"S", "t", "a", "t", "e", " ", "S", "t", "r", "e", "e", "t">>,
      <<"B", "N", "Y", " ", "M", "e", "l", "l", "o", "n">>,
      <<"P", "e", "r", "s", "h", "i", "n", "g">>,
      <<"J", "P", "M", "o", "r", "g", "a", "n", " ">>,
      <<"J", "P", "M", "O", "R", "G", "A", "N">>,
      <<"E", "q", "u", "i", "n", "i", "t", "i", " ">>,
      <<"E", "Q", "U", "I", "N", "I", "T", "I">>,
      <<"F", "i", "d", "e", "l", "i", "t", "y">>,
      <<"V", "a", "n", "g", "u", "a", "r", "d">>,
      <<"A", "m", "e", "r", "i", "c", "a", "n", " ", "F", "u", "n", "d", "s">>,
      <<"C", "a", "p", "i", "t", "a", "l", " ", "G", "r", "o", "u", "p">>,
      <<"D", "S", "T", " ">>,
      <<"d", "s", "t", " ">>,
      <<"D", "S", "T">>,
      <<" ">>,
      <<"S", "e", "r", "v", "i", "c", "e", "s">>,
      <<"A", "c", "m", "e", " ">> }

\* The names made of at most n pieces.
RECURSIVE NamesOf(_)
NamesOf(n) ==
    IF n = 0 THEN { <<>> }
    ELSE LET shorter == NamesOf(n - 1)
         IN  shorter \cup { s \o p : s \in shorter, p \in NamePieces }

EntityNames == NamesOf(MaxPieces) \cup {None}


-----------------------------------------------------------------------------
(* main of src/MarketShare.py, from the concatenated registrations on
   (lines 59-87) *)

\* The characters of the names, in code-point order: strings sort by it.
CodePoints ==
    << "\n", " ", "&", ",", "-", ".", "/",
       "0", "1", "2", "3", "4", "5", "6", "7", "8", "9", ":", "<", ">",
       "A", "B", "C", "D", "E", "F", "G", "H", "I", "J", "K", "L", "M",
       "N", "O", "P", "Q", "R", "S", "T", "U", "V", "W", "X", "Y", "Z", "_",
       "a", "b", "c", "d", "e", "f", "g", "h", "i", "j", "k", "l", "m",
       "n", "o", "p", "q", "r", "s", "t", "u", "v", "w", "x", "y", "z" >>

CodePoint(c) == CHOOSE i \in DOMAIN CodePoints : CodePoints[i] = c

\* Python's s < t on str.
RECURSIVE StrLess(_, _)
StrLess(s, t) ==
    IF t = <<>> THEN FALSE
    ELSE IF s = <<>> THEN TRUE
    ELSE IF s[1] = t[1] THEN StrLess(Tail(s), Tail(t))
    ELSE CodePoint(s[1]) < CodePoint(t[1])

\* The keys of a groupby, which sorts them: a set of distinct str, ascending.
RECURSIVE SortedKeys(_)
SortedKeys(keys) ==
    IF keys = {} THEN <<>>
    ELSE LET least == CHOOSE k \in keys : \A m \in keys \ {k} : StrLess(k, m)
         IN  <<least>> \o SortedKeys(keys \ {least})

RECURSIVE SumOf(_, _)
SumOf(rows, i) == IF i > Len(rows) THEN 0 ELSE rows[i].NumCompanies + SumOf(rows, i + 1)

\* Mutant: the last row holding the maximum is taken.
idxmax_last(regs, cik) ==
    LET group == { i \in DOMAIN regs : regs[i].CIK = cik }
        top   == { i \in group : \A j \in group : regs[j].FILING_DATE <= regs[i].FILING_DATE }
    IN  CHOOSE i \in top : \A j \in top : j <= i

\* groupby("CIK")["FILING_DATE"].idxmax() for one CIK: the index label of the
\* first row of the group that holds the group's maximum (labels count from 1
\* here, from 0 in pandas).
idxmax(regs, cik) ==
    LET group == { i \in DOMAIN regs : regs[i].CIK = cik }
        top   == { i \in group : \A j \in group : regs[j].FILING_DATE <= regs[i].FILING_DATE }
    IN  CHOOSE i \in top : \A j \in top : i <= j

\* current = all_regs.loc[idx]: one row per CIK, in the order of the sorted
\* CIKs, each keeping its index label in all_regs.
current_rows(regs) ==
    LET ciks == SortedKeys({ regs[i].CIK : i \in DOMAIN regs })
    IN  [k \in DOMAIN ciks |->
            LET idx == idxmax(regs, ciks[k])
            IN  [index       |-> idx,
                 CIK         |-> ciks[k],
                 ENTITYNAME  |-> regs[idx].ENTITYNAME,
                 FILING_DATE |-> regs[idx].FILING_DATE]]

\* df_aff: current.groupby("ENTITYNAME")["CIK"].nunique(), with its Brand column.
df_aff(cur) ==
    LET entities == SortedKeys({ cur[i].ENTITYNAME : i \in DOMAIN cur })
    IN  [k \in DOMAIN entities |->
            [ENTITYNAME   |-> entities[k],
             NumCompanies |-> Cardinality({ cur[i].CIK : i \in
                                 { j \in DOMAIN cur : cur[j].ENTITYNAME = entities[k] } }),
             Brand        |-> brand_of(entities[k])]]

\* df_aff.groupby("Brand")["NumCompanies"].sum()
brand_sums(aff) ==
    LET brands == SortedKeys({ aff[i].Brand : i \in DOMAIN aff })
    IN  [k \in DOMAIN brands |->
            [Brand        |-> brands[k],
             NumCompanies |-> SumOf(SelectSeq(aff, LAMBDA r : r.Brand = brands[k]), 1)]]

\* sort_values("NumCompanies", ascending=False), kind='quicksort': every
\* ordering that is descending in NumCompanies is an outcome.
RECURSIVE DescendingOrdersOf(_, _)
DescendingOrdersOf(rows, idx) ==
    IF idx = {} THEN { <<>> }
    ELSE LET most == { i \in idx : \A j \in idx : rows[j].NumCompanies <= rows[i].NumCompanies }
         IN  UNION { { <<rows[i]>> \o t : t \in DescendingOrdersOf(rows, idx \ {i}) } : i \in most }

\* issuer_count.py: the (CIK, ENTITYNAME) columns of the merged rows, and
\* drop_duplicates(), which keeps the first of equal rows.
pairs_of(regs) ==
    [i \in DOMAIN regs |-> [CIK |-> regs[i].CIK, ENTITYNAME |-> regs[i].ENTITYNAME]]

drop_duplicates(rows) == Unique(rows)

ShareIdle ==
    /\ all_regs = <<>>
    /\ current = <<>>
    /\ brand_counts = <<>>
    /\ total_issuers = 0
    /\ all_df = <<>>

-----------------------------------------------------------------------------
(* rapidfuzz, as normalise.py uses it: fuzz.ratio and process.extractOne *)

\* A score is the exact fraction num/den of the float rapidfuzz returns.
Score(num, den) == [num |-> num, den |-> den]
ScoreGeq(x, y) == x.num * y.den >= y.num * x.den
ScoreGt(x, y)  == x.num * y.den >  y.num * x.den
ScoreEq(x, y)  == x.num * y.den =  y.num * x.den
Zero    == Score(0, 1)
Optimal == Score(100, 1)

Max(m, n) == IF m >= n THEN m ELSE n

\* Length of a longest common subsequence of two strings.
RECURSIVE LCS(_, _)
LCS(s, t) ==
    IF s = <<>> \/ t = <<>> THEN 0
    ELSE IF Last(s) = Last(t)
         THEN 1 + LCS(SubSeq(s, 1, Len(s) - 1), SubSeq(t, 1, Len(t) - 1))
    ELSE Max(LCS(SubSeq(s, 1, Len(s) - 1), t), LCS(s, SubSeq(t, 1, Len(t) - 1)))

\* fuzz.ratio without a cutoff: the normalised Indel similarity times 100,
\* 100 * (1 - (len1 + len2 - 2*lcs) / (len1 + len2)), and 100 for two empty strings.
IndelRatio(s, t) ==
    IF Len(s) + Len(t) = 0 THEN Optimal
    ELSE Score(200 * LCS(s, t), Len(s) + Len(t))

\* fuzz.ratio(s, t, score_cutoff=cutoff): a score below the cutoff is given as 0.
fuzz_ratio(s, t, cutoff) ==
    IF ScoreGeq(IndelRatio(s, t), cutoff) THEN IndelRatio(s, t) ELSE Zero

NoMatch == [found |-> FALSE, choice |-> <<>>, score |-> Zero, index |-> 0]

\* Mutant of the loop of extractOne: a score has to exceed the cutoff.
RECURSIVE extractOne_loop_strict(_, _, _, _, _)
extractOne_loop_strict(query, choices, i, score_cutoff, result) ==
    IF i > Len(choices) THEN result
    ELSE LET score == fuzz_ratio(query, choices[i], score_cutoff)
         IN  IF ScoreGt(score, score_cutoff)
                /\ (~result.found \/ ScoreGt(score, result.score))
             THEN LET better == [found |-> TRUE, choice |-> choices[i],
                                 score |-> score, index |-> i - 1]
                  IN  IF ScoreEq(score, Optimal) THEN better
                      ELSE extractOne_loop_strict(query, choices, i + 1, score, better)
             ELSE IF ScoreEq(score, Optimal) THEN result
             ELSE extractOne_loop_strict(query, choices, i + 1, score_cutoff, result)

\* The loop of process.extractOne over the choices: a choice replaces the
\* result when its score reaches the cutoff and exceeds the result's score,
\* the cutoff rises to that score, and the loop stops at the optimal score.
RECURSIVE extractOne_loop(_, _, _, _, _)
extractOne_loop(query, choices, i, score_cutoff, result) ==
    IF i > Len(choices) THEN result
    ELSE LET score == fuzz_ratio(query, choices[i], score_cutoff)
         IN  IF ScoreGeq(score, score_cutoff)
                /\ (~result.found \/ ScoreGt(score, result.score))
             THEN LET better == [found |-> TRUE, choice |-> choices[i],
                                 score |-> score, index |-> i - 1]
                  IN  IF ScoreEq(score, Optimal) THEN better
                      ELSE extractOne_loop(query, choices, i + 1, score, better)
             ELSE IF ScoreEq(score, Optimal) THEN result
             ELSE extractOne_loop(query, choices, i + 1, score_cutoff, result)

\* process.extractOne(query, choices, scorer=fuzz.ratio, score_cutoff=cutoff)
extractOne(query, choices, score_cutoff) ==
    extractOne_loop(query, choices, 1, score_cutoff, NoMatch)

-----------------------------------------------------------------------------
(* normalise_agent_name (src/src/normalise.py:15-60) *)

Whitespace == {" "}

\* str.strip()
strip(str) ==
    LET inked == { i \in DOMAIN str : str[i] \notin Whitespace }
    IN  IF inked = {} THEN <<>>
        ELSE SubSeq(str, CHOOSE i \in inked : \A j \in inked : i <= j,
                         CHOOSE i \in inked : \A j \in inked : j <= i)

\* The taxonomy is a dict in insertion order: a sequence of entries
\* [canonical, variants] with distinct canonical names.

\* The pairs (candidate, canonical) in the order the loops of lines 36-44
\* visit them: each canonical name, then its variants.
RECURSIVE Candidates(_)
Candidates(agents) ==
    IF agents = <<>> THEN <<>>
    ELSE LET entry == agents[Len(agents)]
         IN  Candidates(SubSeq(agents, 1, Len(agents) - 1))
             \o << [candidate |-> entry.canonical, canonical |-> entry.canonical] >>
             \o [k \in DOMAIN entry.variants |->
                    [candidate |-> entry.variants[k], canonical |-> entry.canonical]]

\* all_variants
all_variants(agents) ==
    LET pairs == Candidates(agents)
    IN  [k \in DOMAIN pairs |-> pairs[k].candidate]

\* Mutant: the first assignment to a key of canonical_to_variant is kept.
canonical_to_variant_first(agents, str) ==
    LET pairs == Candidates(agents)
        at    == { k \in DOMAIN pairs : pairs[k].candidate = str }
    IN  pairs[CHOOSE k \in at : \A m \in at : k <= m].canonical

\* canonical_to_variant[str]: a dict keeps the last value assigned to a key.
canonical_to_variant(agents, str) ==
    LET pairs == Candidates(agents)
        at    == { k \in DOMAIN pairs : pairs[k].candidate = str }
    IN  pairs[CHOOSE k \in at : \A m \in at : m <= k].canonical

Unmatched == [canonical_name |-> UNKNOWN, score |-> Zero]

\* Mutant: the length test is made on the raw name, not on the stripped one.
normalise_agent_name_unstripped_length(raw, agents, threshold) ==
    IF raw = None \/ raw = <<>> \/ Len(raw) < 3 THEN Unmatched
    ELSE LET cleaned_name == strip(raw)
             choices == all_variants(agents)
             found == extractOne(cleaned_name, choices, Score(threshold, 1))
         IN  IF choices # <<>> /\ found.found
             THEN [canonical_name |-> canonical_to_variant(agents, found.choice),
                   score |-> found.score]
             ELSE Unmatched

\* Mutant: the best matching candidate is returned, not the canonical name
\* that owns it.
normalise_agent_name_returning_match(raw, agents, threshold) ==
    IF raw = None \/ raw = <<>> \/ Len(strip(raw)) < 3 THEN Unmatched
    ELSE LET cleaned_name == strip(raw)
             choices == all_variants(agents)
             found == extractOne(cleaned_name, choices, Score(threshold, 1))
         IN  IF choices # <<>> /\ found.found
             THEN [canonical_name |-> found.choice, score |-> found.score]
             ELSE Unmatched

normalise_agent_name(raw, agents, threshold) ==
    IF raw = None \/ raw = <<>> \/ Len(strip(raw)) < 3 THEN Unmatched
    ELSE LET cleaned_name == strip(raw)
             choices == all_variants(agents)
             found == extractOne(cleaned_name, choices, Score(threshold, 1))
         IN  IF choices # <<>> /\ found.found
             THEN [canonical_name |-> canonical_to_variant(agents, found.choice),
                   score |-> found.score]
             ELSE Unmatched

NormaliseIdle ==
    /\ raw_name = <<>>
    /\ canonical_agents = <<>>
    /\ similarity_threshold = 50
    /\ normalised = Unmatched

-----------------------------------------------------------------------------
(* analyze_transfer_agent_evolution (src/src/pipeline.py:100-152) *)

\* The rows of one company, in DataFrame order: df[df['cik'] == cik].
RowsOf(frame, cik) == SelectSeq(frame, LAMBDA row : row.cik = cik)

\* Mutants of the known-agent test: one forgets pd.notna, one forgets 'UNKNOWN'.
IsKnownAgent_without_notna(row) == row.transfer_agent_clean # UNKNOWN
IsKnownAgent_without_unknown(row) == row.transfer_agent_clean # None

\* pd.notna(row['transfer_agent_clean']) and row['transfer_agent_clean'] != 'UNKNOWN'
IsKnownAgent(row) ==
    row.transfer_agent_clean # None /\ row.transfer_agent_clean # UNKNOWN

HistoryEntry(row) ==
    [period |-> row.period_end, agent |-> row.transfer_agent_clean,
     form_type |-> row.form_type]

\* Mutant of the history: every row gives an entry, whatever its agent.
agent_history_unfiltered(data) == [i \in DOMAIN data |-> HistoryEntry(data[i])]

\* agent_history: one entry per row of the sorted company data with a known agent.
agent_history(data) ==
    LET known == SelectSeq(data, IsKnownAgent)
    IN  [i \in DOMAIN known |-> HistoryEntry(known[i])]

\* Mutant of the loop: current_agent is not updated after a change.
RECURSIVE ChangesFrom_stale(_, _, _, _, _)
ChangesFrom_stale(cik, company_name, history, i, current_agent) ==
    IF i > Len(history) THEN <<>>
    ELSE IF current_agent = None
         THEN ChangesFrom_stale(cik, company_name, history, i + 1, history[i].agent)
    ELSE IF history[i].agent # current_agent
         THEN << [cik |-> cik, ticker |-> company_name,
                  from_agent |-> current_agent, to_agent |-> history[i].agent,
                  change_date |-> history[i].period,
                  form_type |-> history[i].form_type] >>
              \o ChangesFrom_stale(cik, company_name, history, i + 1, current_agent)
    ELSE ChangesFrom_stale(cik, company_name, history, i + 1, current_agent)

\* The loop over agent_history; current_agent starts as None.
RECURSIVE ChangesFrom(_, _, _, _, _)
ChangesFrom(cik, company_name, history, i, current_agent) ==
    IF i > Len(history) THEN <<>>
    ELSE IF current_agent = None
         THEN ChangesFrom(cik, company_name, history, i + 1, history[i].agent)
    ELSE IF history[i].agent # current_agent
         THEN << [cik |-> cik, ticker |-> company_name,
                  from_agent |-> current_agent, to_agent |-> history[i].agent,
                  change_date |-> history[i].period,
                  form_type |-> history[i].form_type] >>
              \o ChangesFrom(cik, company_name, history, i + 1, history[i].agent)
    ELSE ChangesFrom(cik, company_name, history, i + 1, current_agent)

\* "Find changes in transfer agents": only when len(agent_history) > 1.
transfer_agent_changes(cik, company_name, history) ==
    IF Len(history) > 1
    THEN ChangesFrom(cik, company_name, history, 1, None)
    ELSE <<>>

\* Mutant: the first entry of the history is recorded as current.
RecordCurrent_first(current_agents, company_name, history) ==
    IF history = <<>> THEN current_agents
    ELSE [t \in DOMAIN current_agents \cup {company_name} |->
            IF t = company_name THEN history[1].agent ELSE current_agents[t]]

\* evolution_insights["current_agents"][company_name] = agent_history[-1]['agent']
RecordCurrent(current_agents, company_name, history) ==
    IF history = <<>> THEN current_agents
    ELSE [t \in DOMAIN current_agents \cup {company_name} |->
            IF t = company_name THEN Last(history).agent ELSE current_agents[t]]

NoInsights ==
    [companies_analyzed |-> 0, transfer_agent_changes |-> <<>>,
     current_agents |-> <<>>, agent_transitions |-> <<>>]

\* The loop "for cik in df['cik'].unique()", given each company's sorted data.
RECURSIVE AnalyzeCompanies(_, _, _, _)
AnalyzeCompanies(ciks, i, data, acc) ==
    IF i > Len(ciks) THEN acc
    ELSE LET cik          == ciks[i]
             company_name == data[cik][1].ticker
             history      == agent_history(data[cik])
         IN  AnalyzeCompanies(ciks, i + 1, data,
                [companies_analyzed     |-> acc.companies_analyzed + 1,
                 transfer_agent_changes |-> acc.transfer_agent_changes
                        \o transfer_agent_changes(cik, company_name, history),
                 current_agents         |-> RecordCurrent(acc.current_agents,
                                                          company_name, history),
                 agent_transitions      |-> acc.agent_transitions])

EvolutionIdle == df = <<>> /\ company_data = <<>> /\ insights = NoInsights

CiksOf(frame) == Unique([i \in DOMAIN frame |-> frame[i].cik])

\* Every way the per-company sorts can come out for a DataFrame.
CompanyDataChoices(frame) ==
    LET ciks == { frame[i].cik : i \in DOMAIN frame }
        outs == UNION { sort_values_period_end(RowsOf(frame, c)) : c \in ciks }
    IN  { f \in [ciks -> outs] :
            \A c \in ciks : f[c] \in sort_values_period_end(RowsOf(frame, c)) }

analyze_transfer_agent_evolution(frame, data) ==
    AnalyzeCompanies(CiksOf(frame), 1, data, NoInsights)

-----------------------------------------------------------------------------
(* One subject's evidence: rows arrive in any order, then the analysis runs *)

\* Two canonical agents, A and B of the timeline examples.
A == <<"C", "o", "m", "p", "u", "t", "e", "r", "s", "h", "a", "r", "e">>
B == <<"B", "r", "o", "a", "d", "r", "i", "d", "g", "e">>
Agents == {A, B}
Labels == Agents \cup {UNKNOWN, None}
Years  == {2021, 2023}

\* The subject of the single-subject runs (Apple's cik and ticker in
\* src/demo_timeseries_analysis.py).
SubjectRow(year, label) ==
    [cik |-> "0000320193", ticker |-> "AAPL", period_end |-> year,
     form_type |-> "10-K", transfer_agent_clean |-> label]

\* The timeline [A, A, UNKNOWN, B, B, A] over six consecutive year ends.
ExampleTimeline ==
    << SubjectRow(2018, A), SubjectRow(2019, A), SubjectRow(2020, UNKNOWN),
       SubjectRow(2021, B), SubjectRow(2022, B), SubjectRow(2023, A) >>

InitTimeline ==
    /\ stage = "rows"
    /\ df \in { <<>>, ExampleTimeline }
    /\ company_data = <<>>
    /\ insights = NoInsights
    /\ BrandIdle
    /\ NormaliseIdle
    /\ ShareIdle
    /\ PipelineIdle
    /\ ExtractIdle
    /\ MarketIdle
    /\ CrawlIdle

\* An evidence row of the subject is appended to the DataFrame.
AppendRow ==
    /\ stage = "rows"
    /\ Len(df) < MaxTimeline
    /\ \E year \in Years, label \in Labels :
          df' = Append(df, SubjectRow(year, label))
    /\ UNCHANGED <<stage, company_data, insights, brandVars, normaliseVars, shareVars,
                   pipelineVars, extractVars, marketVars, crawlVars>>

\* analyze_transfer_agent_evolution(df)
AnalyzeEvolution ==
    /\ stage = "rows"
    /\ \E data \in CompanyDataChoices(df) :
          /\ company_data' = data
          /\ insights' = analyze_transfer_agent_evolution(df, data)
    /\ stage' = "analyzed"
    /\ UNCHANGED <<df, brandVars, normaliseVars, shareVars,
                   pipelineVars, extractVars, marketVars, crawlVars>>

NextTimeline == AppendRow \/ AnalyzeEvolution

SpecTimeline == InitTimeline /\ [][NextTimeline]_vars

-----------------------------------------------------------------------------
(* Brand collapsing of one registrant name *)

InitBrand ==
    /\ stage = "name"
    /\ name \in EntityNames
    /\ brand = <<>>
    /\ EvolutionIdle
    /\ NormaliseIdle
    /\ ShareIdle
    /\ PipelineIdle
    /\ ExtractIdle
    /\ MarketIdle
    /\ CrawlIdle

\* brand_of(name)
ApplyBrandOf ==
    /\ stage = "name"
    /\ brand' = brand_of(name)
    /\ stage' = "branded"
    /\ UNCHANGED <<name, evolutionVars, normaliseVars, shareVars,
                   pipelineVars, extractVars, marketVars, crawlVars>>

NextBrand == ApplyBrandOf

SpecBrand == InitBrand /\ [][NextBrand]_vars

-----------------------------------------------------------------------------
(* Canonicalisation of one raw name against a taxonomy *)

\* The characters raw names are written in.
RawAlphabet == {" ", "a", "b"}

RECURSIVE StringsOf(_)
StringsOf(n) ==
    IF n = 0 THEN { <<>> }
    ELSE LET shorter == StringsOf(n - 1)
         IN  shorter \cup { Append(str, c) : str \in shorter, c \in RawAlphabet }

RawNames == StringsOf(MaxRawLen) \cup {None}

\* The canonical names and the variants taxonomies are written with; a
\* variant may repeat a canonical name, nothing in the file format forbids it.
TaxonomyNames == { <<"a", "b">>, <<"a", "a">>, <<"a", "a", "b">> }
VariantNames  == { <<"a", "a">>, <<"a", "a", "b">> }

TaxonomyEntries ==
    { [canonical |-> c, variants |-> v] :
        c \in TaxonomyNames, v \in { <<>> } \cup { <<x>> : x \in VariantNames } }

\* The taxonomies of at most n entries; the keys of a dict are distinct.
RECURSIVE TaxonomiesOf(_)
TaxonomiesOf(n) ==
    IF n = 0 THEN { <<>> }
    ELSE LET shorter == TaxonomiesOf(n - 1)
         IN  shorter \cup
             { t \in { Append(u, e) : u \in shorter, e \in TaxonomyEntries } :
                 \A i, j \in DOMAIN t : i < j => t[i].canonical # t[j].canonical }

\* The default similarity_threshold, one above it, and a lenient one.
DefaultThreshold == 80
Thresholds == {50, DefaultThreshold, DefaultThreshold + 1}

InitNormalise ==
    /\ stage = "raw"
    /\ raw_name \in RawNames
    /\ canonical_agents \in TaxonomiesOf(MaxCanonicals)
    /\ similarity_threshold \in Thresholds
    /\ normalised = Unmatched
    /\ EvolutionIdle
    /\ BrandIdle
    /\ ShareIdle
    /\ PipelineIdle
    /\ ExtractIdle
    /\ MarketIdle
    /\ CrawlIdle

\* normalise_agent_name(raw_name, canonical_agents, similarity_threshold)
NormaliseAgentName ==
    /\ stage = "raw"
    /\ normalised' = normalise_agent_name(raw_name, canonical_agents, similarity_threshold)
    /\ stage' = "normalised"
    /\ UNCHANGED <<raw_name, canonical_agents, similarity_threshold,
                   evolutionVars, brandVars, shareVars,
                   pipelineVars, extractVars, marketVars, crawlVars>>

NextNormalise == NormaliseAgentName

SpecNormalise == InitNormalise /\ [][NextNormalise]_vars

-----------------------------------------------------------------------------
(* The market snapshot of MarketShare.py *)

\* Registrants (CIK) and the service companies named in their registrations.
Registrants == { <<"0", "0", "0", "0", "3", "2", "0", "1", "9", "3">>, <<"0", "0", "0", "0", "7", "8", "9", "0", "1", "9">> }
JPMorgan_Name == <<"J", "P", "M", "o", "r", "g", "a", "n", " ", "C", "h", "a", "s", "e", " ", "B", "a", "n", "k">>
Pershing_Name == <<"P", "e", "r", "s", "h", "i", "n", "g", " ", "L", "L", "C">>
Computershare_Name == <<"C", "o", "m", "p", "u", "t", "e", "r", "s", "h", "a", "r", "e", " ", "I", "n", "c">>
ServiceCompanies ==
    { JPMorgan_Name, Pershing_Name, Computershare_Name }
FilingDates == {20240115, 20240402}

InitShare ==
    /\ stage = "registrations"
    /\ ShareIdle
    /\ EvolutionIdle
    /\ BrandIdle
    /\ NormaliseIdle
    /\ PipelineIdle
    /\ ExtractIdle
    /\ MarketIdle
    /\ CrawlIdle

\* A quarter's merged rows are appended to the registrations (lines 56-60).
AppendRegistration ==
    /\ stage = "registrations"
    /\ Len(all_regs) < MaxRegs
    /\ \E cik \in Registrants, entity \in ServiceCompanies, date \in FilingDates :
          all_regs' = Append(all_regs,
                [CIK |-> cik, ENTITYNAME |-> entity, FILING_DATE |-> date])
    /\ UNCHANGED <<stage, current, brand_counts, total_issuers, all_df,
                   evolutionVars, brandVars, normaliseVars,
                   pipelineVars, extractVars, marketVars, crawlVars>>

\* Steps 6 to 9 of main; pd.concat raises when nothing was collected.
MarketSnapshot ==
    /\ stage = "registrations"
    /\ all_regs # <<>>
    /\ LET cur  == current_rows(all_regs)
           sums == brand_sums(df_aff(cur))
       IN  /\ current' = cur
           /\ \E sorted \in DescendingOrdersOf(sums, DOMAIN sums) :
                 brand_counts' = sorted
           /\ total_issuers' = Cardinality({ cur[i].CIK : i \in DOMAIN cur })
    /\ stage' = "snapshot"
    /\ UNCHANGED <<all_regs, all_df, evolutionVars, brandVars, normaliseVars,
                   pipelineVars, extractVars, marketVars, crawlVars>>

\* Steps 5 to 9 of main of issuer_count.py, over the same merged rows
\* without their dates.
IssuerCount ==
    /\ stage = "registrations"
    /\ all_regs # <<>>
    /\ LET deduped == drop_duplicates(pairs_of(all_regs))
           sums    == brand_sums(df_aff(deduped))
       IN  /\ all_df' = deduped
           /\ \E sorted \in DescendingOrdersOf(sums, DOMAIN sums) :
                 brand_counts' = sorted
           /\ total_issuers' = Cardinality({ deduped[i].CIK : i \in DOMAIN deduped })
    /\ stage' = "issuer_count"
    /\ UNCHANGED <<all_regs, current, evolutionVars, brandVars, normaliseVars,
                   pipelineVars, extractVars, marketVars, crawlVars>>

NextShare == AppendRegistration \/ MarketSnapshot \/ IssuerCount

SpecShare == InitShare /\ [][NextShare]_vars

-----------------------------------------------------------------------------
(* Claims about the change detector and the timeline *)

\* The transitions reported for one company, in report order.
ChangesOfCik(cik) ==
    SelectSeq(insights.transfer_agent_changes, LAMBDA ch : ch.cik = cik)

\* Positions of a timeline whose agent is neither UNKNOWN nor missing.
KnownAt(tl) ==
    { i \in DOMAIN tl : tl[i].transfer_agent_clean \notin {UNKNOWN, None} }

\* The closest earlier position with a known agent (0 when there is none).
PrevKnown(tl, i) ==
    LET before == { j \in KnownAt(tl) : j < i }
    IN  IF before = {} THEN 0
        ELSE CHOOSE j \in before : \A k \in before : k <= j

\* Positions whose known agent differs from that of the preceding known state.
ChangeAt(tl) ==
    { i \in KnownAt(tl) :
        /\ PrevKnown(tl, i) # 0
        /\ tl[PrevKnown(tl, i)].transfer_agent_clean # tl[i].transfer_agent_clean }

\* The n-th smallest member of a set of positions.
NthOf(S, n) == CHOOSE i \in S : Cardinality({ j \in S : j < i }) = n - 1

\* C1: for each company's date-ordered timeline, the detector reports exactly
\* one transition for every known state whose agent differs from that of the
\* preceding known state, in timeline order, each carrying the cik, the prior
\* agent, the new agent and the date of the new state.
C1_TransitionsAreKnownAgentChanges ==
    stage = "analyzed" =>
        \A cik \in DOMAIN company_data :
            LET tl == company_data[cik]
                ch == ChangesOfCik(cik)
            IN  /\ Len(ch) = Cardinality(ChangeAt(tl))
                /\ \A n \in DOMAIN ch :
                      LET i == NthOf(ChangeAt(tl), n)
                      IN  /\ ch[n].cik = cik
                          /\ ch[n].from_agent = tl[PrevKnown(tl, i)].transfer_agent_clean
                          /\ ch[n].to_agent = tl[i].transfer_agent_clean
                          /\ ch[n].change_date = tl[i].period_end

\* The timeline [A, A, UNKNOWN, B, B, A] was analysed and gave A->B, then B->A.
C1_Witness ==
    /\ stage = "analyzed"
    /\ df = ExampleTimeline
    /\ Len(insights.transfer_agent_changes) = 2
    /\ insights.transfer_agent_changes[1].from_agent = A
    /\ insights.transfer_agent_changes[1].to_agent = B
    /\ insights.transfer_agent_changes[1].change_date = 2021
    /\ insights.transfer_agent_changes[2].from_agent = B
    /\ insights.transfer_agent_changes[2].to_agent = A
    /\ insights.transfer_agent_changes[2].change_date = 2023

\* How often a row occurs in a sequence of rows.
Occurrences(rows, r) == Cardinality({ i \in DOMAIN rows : rows[i] = r })

\* One entry per evidence row of the company, ascending in observation date.
TimelineIsSortedEvidence(cik) ==
    LET tl   == company_data[cik]
        rows == RowsOf(df, cik)
    IN  /\ Len(tl) = Len(rows)
        /\ \A i \in DOMAIN rows : Occurrences(tl, rows[i]) = Occurrences(rows, rows[i])
        /\ \A i, j \in DOMAIN tl : i < j => tl[i].period_end <= tl[j].period_end

C4_UnknownStatesAreTransparent ==
    stage = "analyzed" =>
        \A cik \in DOMAIN company_data :
            LET tl       == company_data[cik]
                stripped == SelectSeq(tl, LAMBDA r :
                                r.transfer_agent_clean \notin {UNKNOWN, None})
                ch       == ChangesOfCik(cik)
            IN  /\ ch = transfer_agent_changes(cik, tl[1].ticker,
                                               agent_history(stripped))
                /\ \A n \in DOMAIN ch :
                      /\ ch[n].from_agent \notin {UNKNOWN, None}
                      /\ ch[n].to_agent \notin {UNKNOWN, None}

\* A run with an UNKNOWN state at the start, a missing one between two
\* different agents and an UNKNOWN one at the end: exactly one transition.
C4_Witness ==
    /\ stage = "analyzed"
    /\ Len(df) = 4
    /\ Len(company_data["0000320193"]) = 4
    /\ company_data["0000320193"][1].transfer_agent_clean = UNKNOWN
    /\ company_data["0000320193"][2].transfer_agent_clean = A
    /\ company_data["0000320193"][3].transfer_agent_clean = None
    /\ company_data["0000320193"][4].transfer_agent_clean = B
    /\ Len(insights.transfer_agent_changes) = 1
    /\ insights.transfer_agent_changes[1].from_agent = A
    /\ insights.transfer_agent_changes[1].to_agent = B

\* C5: a company with zero or exactly one state of known agent has no
\* transition, whatever number of UNKNOWN or missing states it has.
C5_FewerThanTwoKnownStatesNoTransition ==
    stage = "analyzed" =>
        \A cik \in DOMAIN company_data :
            Cardinality(KnownAt(RowsOf(df, cik))) <= 1 => ChangesOfCik(cik) = <<>>

\* One known state among three UNKNOWN or missing ones, and no transition.
C5_Witness ==
    /\ stage = "analyzed"
    /\ Len(df) = 4
    /\ Cardinality(KnownAt(df)) = 1
    /\ \E i \in DOMAIN df : df[i].transfer_agent_clean = UNKNOWN
    /\ insights.transfer_agent_changes = <<>>

-----------------------------------------------------------------------------
(* Claims about brand_of *)

JPMorgan_Equiniti_Services ==
    <<"J", "P", "M", "o", "r", "g", "a", "n", " ", "E", "q", "u", "i", "n", "i", "t", "i", " ", "S", "e", "r", "v", "i", "c", "e", "s">>

Acme_DST_ == <<"A", "c", "m", "e", " ", "D", "S", "T", " ">>

\* The rules in their documented order: the keywords, one of which the
\* lower-cased name must contain, and the brand; rule 8 is the "dst " prefix.
RuleKeywords ==
    << {kw_computershare}, {kw_state_street},
       {kw_bny_mellon, kw_pershing, kw_jpmorgan}, {kw_equiniti}, {kw_fidelity},
       {kw_vanguard}, {kw_american_funds, kw_capital_group}, {kw_dst} >>

RuleBrand ==
    << Brand_Computershare, Brand_State_Street, Brand_BNY_Mellon, Brand_Equiniti,
       Brand_Fidelity, Brand_Vanguard, Brand_American_Funds, Brand_DST >>

\* The rules a name satisfies, whatever its case.
RulesSatisfiedBy(entity) ==
    LET n == lower(IF entity = None THEN <<>> ELSE entity)
    IN  { k \in 1..8 :
            IF k = 8 THEN StartsWith(n, kw_dst)
            ELSE \E x \in RuleKeywords[k] : Contains(n, x) }

\* C6: the brand of a name that satisfies one or more rules is the brand of
\* the earliest rule it satisfies, in the order Computershare, State Street,
\* BNY Mellon, Equiniti, Fidelity, Vanguard, American Funds, DST.
C6_EarliestRuleWins ==
    stage = "branded" =>
        LET sat == RulesSatisfiedBy(name)
        IN  sat # {} => brand = RuleBrand[CHOOSE k \in sat : \A m \in sat : k <= m]

\* 'JPMorgan Equiniti Services' satisfies rules 3 and 4 and came out BNY Mellon.
C6_Witness ==
    /\ stage = "branded"
    /\ name = JPMorgan_Equiniti_Services
    /\ RulesSatisfiedBy(name) = {3, 4}
    /\ brand = Brand_BNY_Mellon

\* C7: a name that satisfies no rule is returned as it is, in case and
\* whitespace.
C7_NoRuleReturnsNameVerbatim ==
    stage = "branded" => (RulesSatisfiedBy(name) = {} => brand = name)

\* 'Acme DST ' holds "dst " only after its first character: it is returned as
\* it is.
C7_Witness ==
    /\ stage = "branded"
    /\ name = Acme_DST_
    /\ Contains(lower(name), kw_dst)
    /\ RulesSatisfiedBy(name) = {}
    /\ brand = Acme_DST_

-----------------------------------------------------------------------------
(* Claims about normalise_agent_name *)

\* The raw name is long enough to be matched against the taxonomy.
RawNameIsMatched == raw_name # None /\ Len(strip(raw_name)) >= 3

\* The similarity of the stripped raw name to each candidate of the pool.
Similarities ==
    LET pool  == Candidates(canonical_agents)
        query == strip(raw_name)
    IN  [k \in DOMAIN pool |-> IndelRatio(query, pool[k].candidate)]

SimilarityTo(k) == Similarities[k]

\* The candidates of the pool with the best similarity to the raw name.
BestCandidates ==
    LET sims == Similarities
    IN  { k \in DOMAIN sims : \A m \in DOMAIN sims : ScoreGeq(sims[k], sims[m]) }

\* The best similarity reaches the threshold.
BestReachesThreshold ==
    \E k \in BestCandidates : ScoreGeq(SimilarityTo(k), Score(similarity_threshold, 1))

C9_EarliestBestCandidateOwnerWins ==
    (stage = "normalised" /\ RawNameIsMatched /\ BestReachesThreshold) =>
        normalised.canonical_name =
            Candidates(canonical_agents)[
                CHOOSE k \in BestCandidates : \A m \in BestCandidates : k <= m].canonical

\* C10: a raw name that is None, empty or shorter than 3 characters once
\* stripped gives (UNKNOWN, 0), whatever the taxonomy and the threshold.
C10_ShortRawNameIsUnknown ==
    stage = "normalised" =>
        ((raw_name = None \/ Len(strip(raw_name)) < 3) => normalised = Unmatched)

\* ' ab ' is 4 characters long but 2 once stripped; the taxonomy holds 'ab'
\* itself and the threshold is the lenient one: the result is still (UNKNOWN, 0).
C10_Witness ==
    /\ stage = "normalised"
    /\ raw_name = <<" ", "a", "b", " ">>
    /\ canonical_agents = << [canonical |-> <<"a", "b">>, variants |-> <<>>] >>
    /\ similarity_threshold = 50
    /\ normalised = Unmatched

-----------------------------------------------------------------------------
(* Claims about the current-agent selection *)

\* The rows of a registrant, as index labels of all_regs.
RowsOfRegistrant(cik) == { i \in DOMAIN all_regs : all_regs[i].CIK = cik }

\* C2: the row selected as current for a registrant is one with the maximum
\* filing date among the registrant's rows, and among the rows sharing that
\* date it is the last in input order.
C2_CurrentIsLatestAndLastIngested ==
    stage = "snapshot" =>
        \A k \in DOMAIN current :
            LET rows == RowsOfRegistrant(current[k].CIK)
            IN  /\ current[k].index \in rows
                /\ \A j \in rows :
                      \/ all_regs[j].FILING_DATE < all_regs[current[k].index].FILING_DATE
                      \/ /\ all_regs[j].FILING_DATE = all_regs[current[k].index].FILING_DATE
                         /\ j <= current[k].index

-----------------------------------------------------------------------------
(* parse_filing_file and parse_all_filings (src/src/parse.py:57-150) *)

Digits == {"0", "1", "2", "3", "4", "5", "6", "7", "8", "9"}

\* int() of one decimal digit.
DigitValue(c) == CodePoint(c) - CodePoint("0")

\* re.search(r'-(\d{2})-', accession): the two digits of the leftmost
\* occurrence, as a number, or -1 when the pattern occurs nowhere.
year_match(accession) ==
    LET at == { i \in 1..(Len(accession) - 3) :
                  /\ accession[i] = "-"
                  /\ accession[i + 1] \in Digits
                  /\ accession[i + 2] \in Digits
                  /\ accession[i + 3] = "-" }
    IN  IF at = {} THEN -1
        ELSE LET i == CHOOSE k \in at : \A m \in at : k <= m
             IN  10 * DigitValue(accession[i + 1]) + DigitValue(accession[i + 2])

\* str(file_path): the parts joined by the separator.
RECURSIVE PathStr(_)
PathStr(parts) ==
    IF parts = <<>> THEN <<>>
    ELSE IF Len(parts) = 1 THEN parts[1]
    ELSE parts[1] \o <<"/">> \o PathStr(Tail(parts))

\* parts[-k]
FromEnd(parts, k) == parts[Len(parts) - k + 1]

\* The str(e) of the exception open() raises for a file that cannot be read.
ReadError == <<"E", "r", "r", "n", "o">>

\* A filing file is its path (file_path.parts), whether open() and read()
\* succeed, and what extract_transfer_agent_from_html finds in its content
\* (None or the raw text of the mention).
parse_filing_file(file) ==
    IF file.readable
    THEN [cik  |-> IF Len(file.parts) >= 5 THEN FromEnd(file.parts, 4) ELSE UNKNOWN,
          year |-> IF Len(file.parts) >= 5
                   THEN IF year_match(FromEnd(file.parts, 2)) >= 0
                        THEN 2000 + year_match(FromEnd(file.parts, 2))
                        ELSE 2020
                   ELSE 2020,
          form_type |-> IF Len(file.parts) >= 5 THEN FromEnd(file.parts, 3)
                        ELSE UNKNOWN,
          transfer_agent_raw |-> file.found,
          file_path |-> PathStr(file.parts),
          success |-> TRUE]
    ELSE [cik  |-> IF Len(file.parts) >= 4 THEN FromEnd(file.parts, 4) ELSE UNKNOWN,
          year |-> 0,
          form_type |-> UNKNOWN,
          transfer_agent_raw |-> None,
          file_path |-> PathStr(file.parts),
          success |-> FALSE,
          error |-> ReadError]

\* The loop of parse_all_filings: one result per file, appended in file order.
parse_all_filings(files) == [i \in DOMAIN files |-> parse_filing_file(files[i])]

-----------------------------------------------------------------------------
(* normalise_parsing_results and get_agent_statistics
   (src/src/normalise.py:62-143) *)

\* dict(record, key=value): the record with one more field, or one replaced.
With(record, key, value) ==
    [k \in DOMAIN record \cup {key} |-> IF k = key THEN value ELSE record[k]]

\* Python's truth value of an Optional[str].
Truthy(str) == str # None /\ str # <<>>

\* The reference taxonomy the runs load: six canonical names without variants.
ReferenceAgents ==
    << [canonical |-> <<"a", "a", "a">>, variants |-> <<>>],
       [canonical |-> <<"a", "a", "b">>, variants |-> <<>>],
       [canonical |-> <<"a", "b", "a">>, variants |-> <<>>],
       [canonical |-> <<"a", "b", "b">>, variants |-> <<>>],
       [canonical |-> <<"b", "a", "a">>, variants |-> <<>>],
       [canonical |-> <<"b", "a", "b">>, variants |-> <<>>] >>

\* The body of the loop over parsing_results: the copy of the result with
\* its transfer_agent_clean and similarity_score.
normalised_result(result) ==
    IF Truthy(result.transfer_agent_raw)
    THEN LET found == normalise_agent_name(result.transfer_agent_raw,
                                           ReferenceAgents, DefaultThreshold)
         IN  With(With(result, "transfer_agent_clean", found.canonical_name),
                  "similarity_score", found.score)
    ELSE With(With(result, "transfer_agent_clean", None), "similarity_score", Zero)

\* unknown_agents: one entry per result with a raw name that came out UNKNOWN.
unknown_agents(results) ==
    LET rows == SelectSeq(results, LAMBDA r :
                    /\ Truthy(r.transfer_agent_raw)
                    /\ normalised_result(r).transfer_agent_clean = UNKNOWN)
    IN  [i \in DOMAIN rows |->
            [cik |-> rows[i].cik, year |-> rows[i].year,
             raw_name |-> rows[i].transfer_agent_raw,
             file_path |-> rows[i].file_path]]

\* "if unknown_agents:" the review file is opened with 'w' and written, one
\* line per entry (a line is kept as its four fields); otherwise the file
\* is not touched.
review_file_after(results, file) ==
    IF unknown_agents(results) # <<>> THEN unknown_agents(results) ELSE file

normalise_parsing_results(results) ==
    [i \in DOMAIN results |-> normalised_result(results[i])]

\* "agent and agent != 'UNKNOWN'"
IsMatched(result) ==
    Truthy(result.transfer_agent_clean) /\ result.transfer_agent_clean # UNKNOWN

\* sorted(items, key=count, reverse=True): Python's sort is stable, and stays
\* so with reverse=True, so items of equal count keep their order.
RECURSIVE sorted_by_count(_)
sorted_by_count(items) ==
    IF items = <<>> THEN <<>>
    ELSE LET top  == { i \in DOMAIN items :
                         \A j \in DOMAIN items : items[j].count <= items[i].count }
             pick == CHOOSE i \in top : \A j \in top : i <= j
         IN  <<items[pick]>> \o
             sorted_by_count(SubSeq(items, 1, pick - 1)
                             \o SubSeq(items, pick + 1, Len(items)))

\* agent_counts is a dict: its keys are in the order of their first
\* appearance in the results, and each counts the results naming it.
get_agent_statistics(results) ==
    LET matched == SelectSeq(results, IsMatched)
        agents  == Unique([i \in DOMAIN matched |-> matched[i].transfer_agent_clean])
    IN  sorted_by_count(
            [k \in DOMAIN agents |->
                [agent |-> agents[k],
                 count |-> Cardinality({ i \in DOMAIN matched :
                              matched[i].transfer_agent_clean = agents[k] })]])

-----------------------------------------------------------------------------
(* create_final_dataset and step 5 of main (src/src/pipeline.py:50-98, 253-272) *)

\* The companies of the seeds file, as main loads them.
Apple     == [cik |-> <<"0", "0", "0", "0", "3", "2", "0", "1", "9", "3">>, ticker |-> <<"A", "A", "P", "L">>, company_name |-> <<"A", "p", "p", "l", "e", " ", "I", "n", "c">>]
Microsoft == [cik |-> <<"0", "0", "0", "0", "7", "8", "9", "0", "1", "9">>, ticker |-> <<"M", "S", "F", "T">>, company_name |-> <<"M", "i", "c", "r", "o", "s", "o", "f", "t", " ", "C", "o", "r", "p">>]
companies == << Apple, Microsoft >>

\* company_lookup.get(cik, {}).get(field, cik)
company_lookup(cik, field) ==
    LET at == { i \in DOMAIN companies : companies[i].cik = cik }
    IN  IF at = {} THEN cik
        ELSE companies[CHOOSE i \in at : \A j \in at : j <= i][field]

\* str() of a natural number.
RECURSIVE str_of(_)
str_of(n) ==
    IF n < 10 THEN << CodePoints[CodePoint("0") + n] >>
    ELSE Append(str_of(n \div 10), CodePoints[CodePoint("0") + (n % 10)])

\* f"{year}-12-31"
period_end_of(year) == str_of(year) \o <<"-", "1", "2", "-", "3", "1">>

\* The record built for one successful result; now is datetime.utcnow().
dataset_record(result, now) ==
    [cik          |-> result.cik,
     ticker       |-> company_lookup(result.cik, "ticker"),
     company_name |-> company_lookup(result.cik, "company_name"),
     period_end   |-> period_end_of(result.year),
     form_type    |-> result.form_type,
     transfer_agent_raw   |-> result.transfer_agent_raw,
     transfer_agent_clean |-> result.transfer_agent_clean,
     filing_url   |-> result.file_path,
     retrieved_at |-> now]

\* The order of sort_values(['cik', 'period_end', 'form_type']).
KeyLess(r, q) ==
    \/ StrLess(r.cik, q.cik)
    \/ r.cik = q.cik /\ StrLess(r.period_end, q.period_end)
    \/ r.cik = q.cik /\ r.period_end = q.period_end /\ StrLess(r.form_type, q.form_type)

\* Sorting by several columns goes through a lexsort, which is stable: rows
\* with equal keys keep their order.
RECURSIVE sort_values_by_key(_)
sort_values_by_key(rows) ==
    IF rows = <<>> THEN <<>>
    ELSE LET least == { i \in DOMAIN rows : \A j \in DOMAIN rows : ~KeyLess(rows[j], rows[i]) }
             pick  == CHOOSE i \in least : \A j \in least : i <= j
         IN  <<rows[pick]>> \o
             sort_values_by_key(SubSeq(rows, 1, pick - 1)
                                \o SubSeq(rows, pick + 1, Len(rows)))

\* create_final_dataset: results that did not succeed are skipped; a
\* DataFrame built from no records has no columns, and sort_values raises
\* KeyError('cik') on it.
create_final_dataset(results, now) ==
    LET kept    == SelectSeq(results, LAMBDA r : r.success)
        records == [i \in DOMAIN kept |-> dataset_record(kept[i], now)]
    IN  IF records = <<>> THEN Raised ELSE sort_values_by_key(records)

\* How many lines of the statistics main prints.
TopN == 5

\* m / n rounded to the nearest integer, halves to the even one.
RoundHalfEven(m, n) ==
    LET q == m \div n
        r == m % n
    IN  IF 2 * r > n THEN q + 1
        ELSE IF 2 * r < n THEN q
        ELSE IF q % 2 = 0 THEN q ELSE q + 1

\* list(items)[:n]
Head_n(items, n) == SubSeq(items, 1, IF Len(items) < n THEN Len(items) ELSE n)

RECURSIVE CountSum(_, _)
CountSum(stats, i) == IF i > Len(stats) THEN 0 ELSE stats[i].count + CountSum(stats, i + 1)

\* Mutant: the percentages are taken of the lines shown.
shown_lines_of_shown_total(results) ==
    LET stats == Head_n(get_agent_statistics(results), TopN)
        sum   == CountSum(stats, 1)
    IN  [k \in DOMAIN stats |->
            [agent |-> stats[k].agent, count |-> stats[k].count,
             percentage |-> IF sum > 0 THEN RoundHalfEven(stats[k].count * 1000, sum) ELSE 0]]

\* The lines "agent: count filings (percentage%)" of step 5: the first TopN
\* items of agent_stats, percentage = count / matched_agents * 100 printed
\* with one decimal, kept here in tenths of a percent.
shown_lines(results) ==
    LET stats == Head_n(get_agent_statistics(results), TopN)
        matched_agents == Cardinality({ i \in DOMAIN results : IsMatched(results[i]) })
    IN  [k \in DOMAIN stats |->
            [agent |-> stats[k].agent, count |-> stats[k].count,
             percentage |-> IF matched_agents > 0
                            THEN RoundHalfEven(stats[k].count * 1000, matched_agents)
                            ELSE 0]]

-----------------------------------------------------------------------------
(* Runs of the pipeline over the filing files on disk: steps 2 to 5 of main *)

\* Most filing files on disk, and most runs of the pipeline.
MaxFiles == 2
MaxRuns == 2

\* Paths of filing files: two filings of Apple, one whose accession holds no
\* two-digit year, and a file right under the filings directory.
Path_Apple_23 ==
    << <<"d", "a", "t", "a">>,
       <<"f", "i", "l", "i", "n", "g", "s">>,
       <<"s", "e", "c", "-", "e", "d", "g", "a", "r", "-", "f", "i", "l", "i", "n", "g", "s">>,
       <<"0", "0", "0", "0", "3", "2", "0", "1", "9", "3">>,
       <<"1", "0", "-", "K">>,
       <<"0", "0", "0", "0", "3", "2", "0", "1", "9", "3", "-", "2", "3", "-", "0", "0", "0", "1", "0", "6">>,
       <<"f", "u", "l", "l", "-", "s", "u", "b", "m", "i", "s", "s", "i", "o", "n", ".", "t", "x", "t">> >>
Path_Apple_22 ==
    << <<"d", "a", "t", "a">>,
       <<"f", "i", "l", "i", "n", "g", "s">>,
       <<"s", "e", "c", "-", "e", "d", "g", "a", "r", "-", "f", "i", "l", "i", "n", "g", "s">>,
       <<"0", "0", "0", "0", "3", "2", "0", "1", "9", "3">>,
       <<"1", "0", "-", "K">>,
       <<"0", "0", "0", "0", "3", "2", "0", "1", "9", "3", "-", "2", "2", "-", "0", "0", "0", "1", "0", "8">>,
       <<"f", "u", "l", "l", "-", "s", "u", "b", "m", "i", "s", "s", "i", "o", "n", ".", "t", "x", "t">> >>
Path_NoYear ==
    << <<"d", "a", "t", "a">>,
       <<"f", "i", "l", "i", "n", "g", "s">>,
       <<"s", "e", "c", "-", "e", "d", "g", "a", "r", "-", "f", "i", "l", "i", "n", "g", "s">>,
       <<"0", "0", "0", "0", "3", "2", "0", "1", "9", "3">>,
       <<"1", "0", "-", "K">>,
       <<"0", "0", "0", "0", "3", "2", "0", "1", "9", "3", "2", "1", "0", "0", "0", "1", "0", "5">>,
       <<"f", "u", "l", "l", "-", "s", "u", "b", "m", "i", "s", "s", "i", "o", "n", ".", "t", "x", "t">> >>
Path_Short ==
    << <<"d", "a", "t", "a">>,
       <<"f", "i", "l", "i", "n", "g", "s">>,
       <<"f", "u", "l", "l", "-", "s", "u", "b", "m", "i", "s", "s", "i", "o", "n", ".", "t", "x", "t">> >>
Paths == { Path_Apple_23, Path_Apple_22, Path_NoYear, Path_Short }

\* What the extraction finds in a file: no mention, or the raw text of one.
Raw_aab == <<"a", "a", "b">>
Raw_bab == <<"b", "a", "b">>
Raw_bbb == <<"b", "b", "b">>
Findings == { None, Raw_aab, Raw_bab, Raw_bbb }

FilingFiles ==
    { [parts |-> p, readable |-> TRUE, found |-> f] : p \in Paths, f \in Findings }
    \cup { [parts |-> p, readable |-> FALSE, found |-> None] : p \in Paths }

\* The directories of at most n files; the paths of a directory are distinct.
RECURSIVE BatchesOf(_)
BatchesOf(n) ==
    IF n = 0 THEN { <<>> }
    ELSE LET fewer == BatchesOf(n - 1)
         IN  fewer \cup
             { b \in { Append(u, f) : u \in fewer, f \in FilingFiles } :
                 \A i, j \in DOMAIN b : i < j => b[i].parts # b[j].parts }

\* Seven filings naming six agents, one of them twice.
\* The two characters of a year.
yy_digits(yy) == << CodePoints[CodePoint("0") + (yy \div 10)], CodePoints[CodePoint("0") + (yy % 10)] >>

Path_Apple(yy) ==
    << <<"d", "a", "t", "a">>,
       <<"f", "i", "l", "i", "n", "g", "s">>,
       <<"s", "e", "c", "-", "e", "d", "g", "a", "r", "-", "f", "i", "l", "i", "n", "g", "s">>,
       <<"0", "0", "0", "0", "3", "2", "0", "1", "9", "3">>,
       <<"1", "0", "-", "K">>,
       <<"0", "0", "0", "0", "3", "2", "0", "1", "9", "3", "-">> \o yy_digits(yy) \o <<"-", "0", "0", "0", "0", "0", "1">>,
       <<"f", "u", "l", "l", "-", "s", "u", "b", "m", "i", "s", "s", "i", "o", "n", ".", "t", "x", "t">> >>
ExampleBatch ==
    << [parts |-> Path_Apple(17), readable |-> TRUE, found |-> <<"b", "a", "b">>],
       [parts |-> Path_Apple(18), readable |-> TRUE, found |-> <<"a", "a", "b">>],
       [parts |-> Path_Apple(19), readable |-> TRUE, found |-> <<"b", "a", "a">>],
       [parts |-> Path_Apple(20), readable |-> TRUE, found |-> <<"a", "a", "b">>],
       [parts |-> Path_Apple(21), readable |-> TRUE, found |-> <<"a", "b", "b">>],
       [parts |-> Path_Apple(22), readable |-> TRUE, found |-> <<"a", "b", "a">>],
       [parts |-> Path_Apple(23), readable |-> TRUE, found |-> <<"a", "a", "a">>] >>

InitPipeline ==
    /\ stage = "files"
    /\ filing_files \in BatchesOf(MaxFiles) \cup { ExampleBatch }
    /\ parsing_results = <<>>
    /\ normalised_results = <<>>
    /\ review_file = NoFile
    /\ final_dataset = <<>>
    /\ previous_run = <<>>
    /\ agent_stats = <<>>
    /\ shown = <<>>
    /\ clock = 0
    /\ runs = 1
    /\ EvolutionIdle
    /\ BrandIdle
    /\ NormaliseIdle
    /\ ShareIdle
    /\ ExtractIdle
    /\ MarketIdle
    /\ CrawlIdle

\* Step 2: parsing_results = parse_all_filings()
ParseAllFilings ==
    /\ stage = "files"
    /\ parsing_results' = parse_all_filings(filing_files)
    /\ stage' = "parsed"
    /\ UNCHANGED <<filing_files, normalised_results, review_file, final_dataset,
                   previous_run, agent_stats, shown, clock, runs,
                   evolutionVars, brandVars, normaliseVars, shareVars,
                   extractVars, marketVars, crawlVars>>

\* Step 3: normalised_results = normalise_parsing_results(parsing_results)
NormaliseParsingResults ==
    /\ stage = "parsed"
    /\ normalised_results' = normalise_parsing_results(parsing_results)
    /\ review_file' = review_file_after(parsing_results, review_file)
    /\ stage' = "normalised"
    /\ UNCHANGED <<filing_files, parsing_results, final_dataset,
                   previous_run, agent_stats, shown, clock, runs,
                   evolutionVars, brandVars, normaliseVars, shareVars,
                   extractVars, marketVars, crawlVars>>

\* Step 4: df = create_final_dataset(normalised_results, companies); when it
\* raises, main ends there.
CreateFinalDataset ==
    /\ stage = "normalised"
    /\ final_dataset' = create_final_dataset(normalised_results, clock)
    /\ stage' = IF final_dataset' = Raised THEN "aborted" ELSE "dataset"
    /\ UNCHANGED <<filing_files, parsing_results, normalised_results, review_file,
                   previous_run, agent_stats, shown, clock, runs,
                   evolutionVars, brandVars, normaliseVars, shareVars,
                   extractVars, marketVars, crawlVars>>

\* Step 5: agent_stats = get_agent_statistics(normalised_results), and the
\* market-share lines printed from it.
PrintStatistics ==
    /\ stage = "dataset"
    /\ agent_stats' = get_agent_statistics(normalised_results)
    /\ shown' = shown_lines(normalised_results)
    /\ stage' = "statistics"
    /\ UNCHANGED <<filing_files, parsing_results, normalised_results, review_file,
                   final_dataset, previous_run, clock, runs,
                   evolutionVars, brandVars, normaliseVars, shareVars,
                   extractVars, marketVars, crawlVars>>

\* The pipeline is started again, later, over the same files or after one
\* of them was removed; what the run before left on disk is still there.
RunAgain ==
    /\ stage \in {"statistics", "aborted"}
    /\ runs < MaxRuns
    /\ runs' = runs + 1
    /\ clock' = clock + 1
    /\ previous_run' = [filing_files |-> filing_files, final_dataset |-> final_dataset]
    /\ \/ filing_files' = filing_files
       \/ \E i \in DOMAIN filing_files :
             filing_files' = SubSeq(filing_files, 1, i - 1)
                             \o SubSeq(filing_files, i + 1, Len(filing_files))
    /\ parsing_results' = <<>>
    /\ normalised_results' = <<>>
    /\ final_dataset' = <<>>
    /\ agent_stats' = <<>>
    /\ shown' = <<>>
    /\ stage' = "files"
    /\ UNCHANGED <<review_file, evolutionVars, brandVars, normaliseVars, shareVars,
                   extractVars, marketVars, crawlVars>>

NextPipeline ==
    \/ ParseAllFilings
    \/ NormaliseParsingResults
    \/ CreateFinalDataset
    \/ PrintStatistics
    \/ RunAgain

SpecPipeline == InitPipeline /\ [][NextPipeline]_vars

-----------------------------------------------------------------------------
(* Claims about the runs of the pipeline *)

\* The stages of a run after normalise_parsing_results has returned.
Normalised == stage \in {"normalised", "dataset", "aborted", "statistics"}

\* The raw names on the data lines of the review file; none without a file.
ReviewList ==
    IF review_file = NoFile THEN <<>>
    ELSE [i \in DOMAIN review_file |-> review_file[i].raw_name]

\* The raw names of this run's rows that hold a raw name and came out
\* UNKNOWN, in input order.
UnknownRawNames ==
    LET rows == SelectSeq(normalised_results, LAMBDA r :
                    /\ r.transfer_agent_raw \notin {None, <<>>}
                    /\ r.transfer_agent_clean = UNKNOWN)
    IN  [i \in DOMAIN rows |-> rows[i].transfer_agent_raw]

\* C11: after every run of normalise_parsing_results, also one that follows
\* an earlier run, the persisted review list holds exactly the raw names of
\* this run's rows that have a raw name and came out UNKNOWN, one entry per
\* row in input order, and nothing of an earlier run.
C11_ReviewListIsThisRunsUnknowns ==
    Normalised => ReviewList = UnknownRawNames

\* The files the results of this run were parsed from, as row positions.
Rows == DOMAIN normalised_results

\* The subjects with a matched agent, and the total of the label counts.
MatchedSubjects == { normalised_results[i].cik : i \in { j \in Rows : IsMatched(normalised_results[j]) } }
TotalOfCounts == CountSum(agent_stats, 1)

\* C12: in the market-share table every distinct subject identifier adds
\* exactly 1 to the count of exactly one label, however many evidence rows
\* the subject has, so the counts sum to the number of distinct subjects.
C12_CountsSumToDistinctSubjects ==
    stage = "statistics" => TotalOfCounts = Cardinality(MatchedSubjects)

\* C13: the market-share table is in descending order of count, and rows of
\* equal count are in ascending alphabetical order of label, for every input
\* order of the rows.
C13_TableOrderedByCountThenLabel ==
    stage = "statistics" =>
        \A i, j \in DOMAIN agent_stats :
            i < j => \/ agent_stats[i].count > agent_stats[j].count
                     \/ /\ agent_stats[i].count = agent_stats[j].count
                        /\ StrLess(agent_stats[i].agent, agent_stats[j].agent)

\* C15: truncating the ranked table to its top N rows changes no displayed
\* count or percentage: the rows shown are the first N of the full ranking,
\* and the percentage of each is taken of the total over all labels, not of
\* the total of the rows shown.
C15_TopNKeepsCountsAndPercentages ==
    stage = "statistics" =>
        /\ Len(shown) = (IF Len(agent_stats) < TopN THEN Len(agent_stats) ELSE TopN)
        /\ \A k \in DOMAIN shown :
              /\ shown[k].agent = agent_stats[k].agent
              /\ shown[k].count = agent_stats[k].count
              /\ shown[k].percentage = RoundHalfEven(agent_stats[k].count * 1000, TotalOfCounts)

\* Six labels over seven filings: five lines are shown, the first with 2 of
\* 7 filings, 28.6 %%, and the five lines shown hold only 6 of the 7 filings.
C15_Witness ==
    /\ stage = "statistics"
    /\ filing_files = ExampleBatch
    /\ Len(agent_stats) = 6
    /\ Len(shown) = TopN
    /\ TotalOfCounts = 7
    /\ CountSum(shown, 1) = 6
    /\ shown[1].count = 2
    /\ shown[1].percentage = 286

\* C18: a second run of the pipeline over the same evidence gives an output
\* table identical to the first in every row, every field and the row order;
\* no output field depends on the time of the run.
C18_SecondRunGivesIdenticalDataset ==
    (stage \in {"dataset", "statistics"} /\ runs > 1
        /\ previous_run.filing_files = filing_files)
    => final_dataset = previous_run.final_dataset

\* A file whose path gives no subject identifier or no observation date.
LacksIdentifierOrDate(file) ==
    \/ Len(file.parts) < 5
    \/ year_match(FromEnd(file.parts, 2)) < 0

\* C19: a row lacking a subject identifier or an observation date never
\* enters the final dataset; no placeholder identifier and no default date is
\* put in its place.
C19_RowsLackingIdOrDateAreRejected ==
    stage \in {"dataset", "statistics"} =>
        \A i \in DOMAIN filing_files :
            LacksIdentifierOrDate(filing_files[i]) =>
                \A k \in DOMAIN final_dataset :
                    final_dataset[k].filing_url # PathStr(filing_files[i].parts)

\* The stages of a run after parse_all_filings has returned.
Parsed == stage \in {"parsed", "normalised", "dataset", "aborted", "statistics"}

\* The files of this run with file i readable, holding the finding f.
WithReadable(i, f) ==
    [filing_files EXCEPT ![i] = [parts |-> filing_files[i].parts,
                                 readable |-> TRUE, found |-> f]]

\* C20: a failure while processing one filing never aborts the batch:
\* parse_all_filings returns one record per file in file order, the record
\* of a failed file has success = False and the error, the records of the
\* other files are what they would be without the failure, failed records
\* are not in the final dataset, and the run goes on to its final dataset.
C20_FailedFilingNeverAbortsBatch ==
    /\ Parsed =>
          /\ Len(parsing_results) = Len(filing_files)
          /\ \A i \in DOMAIN filing_files :
                /\ parsing_results[i].file_path = PathStr(filing_files[i].parts)
                /\ parsing_results[i].success = filing_files[i].readable
                /\ ~filing_files[i].readable =>
                      /\ "error" \in DOMAIN parsing_results[i]
                      /\ \A f \in Findings, j \in DOMAIN filing_files \ {i} :
                            parse_all_filings(WithReadable(i, f))[j] = parsing_results[j]
    /\ stage \in {"dataset", "statistics"} =>
          \A i \in DOMAIN filing_files :
              ~filing_files[i].readable =>
                  \A k \in DOMAIN final_dataset :
                      final_dataset[k].filing_url # PathStr(filing_files[i].parts)
    /\ (stage = "aborted" /\ filing_files # <<>>) =>
          \A i \in DOMAIN filing_files : filing_files[i].readable

-----------------------------------------------------------------------------
(* SEC10KAnalyzer.calculate_market_share (src/sec_10k_analysis.py:293-315,
   the same in src/approaches/daily_index_approach/sec_10k_analysis.py:389-411) *)

\* pandas NaT, the date of an accession that holds none.
NaT == -1

\* int() of a string of decimal digits.
RECURSIVE int_of(_)
int_of(str) ==
    IF str = <<>> THEN 0
    ELSE 10 * int_of(SubSeq(str, 1, Len(str) - 1)) + DigitValue(Last(str))

DaysIn(year, month) ==
    IF month \in {4, 6, 9, 11} THEN 30
    ELSE IF month # 2 THEN 31
    ELSE IF year % 4 = 0 /\ (year % 100 # 0 \/ year % 400 = 0) THEN 29
    ELSE 28

\* pd.to_datetime(str, format='%Y%m%d', errors='coerce') of one string: the
\* day as the number yyyymmdd, NaT for a string that is no date or a date
\* a Timestamp cannot hold (before 1677-09-22 or after 2262-04-11).
to_datetime(str) ==
    IF Len(str) # 8 \/ \E i \in DOMAIN str : str[i] \notin Digits THEN NaT
    ELSE LET year  == int_of(SubSeq(str, 1, 4))
             month == int_of(SubSeq(str, 5, 6))
             day   == int_of(SubSeq(str, 7, 8))
         IN  IF /\ month \in 1..12
                /\ day \in 1..DaysIn(year, month)
                /\ int_of(str) >= 16770922
                /\ int_of(str) <= 22620411
             THEN int_of(str)
             ELSE NaT

\* str[:n]
Prefix(str, n) == SubSeq(str, 1, IF Len(str) < n THEN Len(str) ELSE n)

\* df['date'] = ...: the frame with its new column.
with_date(frame) ==
    [i \in DOMAIN frame |-> With(frame[i], "date", to_datetime(Prefix(frame[i].accession, 8)))]

\* groupby('cik')['date'].idxmax() for one cik: NaT is skipped and the first
\* row holding the maximum is taken; 0 stands for the NaN of a group whose
\* dates are all NaT.
idxmax_date(frame, cik) ==
    LET group == { i \in DOMAIN frame : frame[i].cik = cik /\ frame[i].date # NaT }
        top   == { i \in group : \A j \in group : frame[j].date <= frame[i].date }
    IN  IF group = {} THEN 0
        ELSE CHOOSE i \in top : \A j \in top : i <= j

\* latest_per_cik: one row per cik in the order of the sorted ciks; df.loc
\* raises KeyError when a label is NaN.
latest_per_cik(frame) ==
    LET ciks == SortedKeys({ frame[i].cik : i \in DOMAIN frame })
    IN  IF \E k \in DOMAIN ciks : idxmax_date(frame, ciks[k]) = 0 THEN Raised
        ELSE [k \in DOMAIN ciks |-> frame[idxmax_date(frame, ciks[k])]]

\* value_counts(): the brands with the number of rows naming each.
value_counts(rows) ==
    LET brands == SortedKeys({ rows[i].brand : i \in DOMAIN rows })
    IN  [k \in DOMAIN brands |->
            [Brand |-> brands[k],
             Issuer_Count |-> Cardinality({ i \in DOMAIN rows : rows[i].brand = brands[k] })]]

\* value_counts() sorts by count, descending: every ordering that is
\* descending in Issuer_Count is an outcome.
RECURSIVE CountOrdersOf(_, _)
CountOrdersOf(rows, idx) ==
    IF idx = {} THEN { <<>> }
    ELSE LET most == { i \in idx : \A j \in idx : rows[j].Issuer_Count <= rows[i].Issuer_Count }
         IN  UNION { { <<rows[i]>> \o t : t \in CountOrdersOf(rows, idx \ {i}) } : i \in most }

RECURSIVE IssuerSum(_, _)
IssuerSum(rows, i) ==
    IF i > Len(rows) THEN 0 ELSE rows[i].Issuer_Count + IssuerSum(rows, i + 1)

\* Mutant: the percentage is cut to 2 decimals instead of rounded.
with_percentages_truncated(table) ==
    LET total_of_issuers == IssuerSum(table, 1)
    IN  [k \in DOMAIN table |->
            With(table[k], "Market_Share_Pct",
                 (table[k].Issuer_Count * 10000) \div total_of_issuers)]

\* Market_Share_Pct = (Issuer_Count / total_issuers * 100).round(2), kept in
\* hundredths of a percent.
with_percentages(table) ==
    LET total_of_issuers == IssuerSum(table, 1)
    IN  [k \in DOMAIN table |->
            With(table[k], "Market_Share_Pct",
                 RoundHalfEven(table[k].Issuer_Count * 10000, total_of_issuers))]

\* The tables calculate_market_share can return for a frame that already
\* holds its date column, or that it raised.
market_share_tables(frame) ==
    IF latest_per_cik(frame) = Raised THEN { Raised }
    ELSE LET counts == value_counts(latest_per_cik(frame))
         IN  { with_percentages(sorted) : sorted \in CountOrdersOf(counts, DOMAIN counts) }

-----------------------------------------------------------------------------
(* The mentions of many documents, and their market share *)

\* Most mentions in the frame of all documents.
MaxMentions == 3

\* Subjects, by the cik of the file name.
Subjects == { <<"1">>, <<"2">>, <<"3">> }

X == <<"C", "o", "m", "p", "u", "t", "e", "r", "s", "h", "a", "r", "e">>
Y == <<"E", "q", "u", "i", "n", "i", "t", "i">>
MentionBrands == { X, Y }

\* Accessions: two that begin with a day, and that of an EDGAR filing.
Accession_20230115 == <<"2", "0", "2", "3", "0", "1", "1", "5", "-", "0", "0", "0", "1">>
Accession_20240402 == <<"2", "0", "2", "4", "0", "4", "0", "2", "-", "0", "0", "0", "1">>
Accession_EDGAR    == <<"0", "0", "0", "0", "3", "2", "0", "1", "9", "3", "-", "2", "3", "-", "0", "0", "0", "1", "0", "6">>
Accessions == { Accession_20230115, Accession_20240402, Accession_EDGAR }

InitMarket ==
    /\ stage = "mentions"
    /\ mentions_df = <<>>
    /\ market_share = <<>>
    /\ EvolutionIdle
    /\ BrandIdle
    /\ NormaliseIdle
    /\ ShareIdle
    /\ PipelineIdle
    /\ ExtractIdle
    /\ CrawlIdle

\* analyze_all_documents: the mentions of one more document join the frame.
AppendMention ==
    /\ stage = "mentions"
    /\ Len(mentions_df) < MaxMentions
    /\ \E cik \in Subjects, accession \in Accessions, b \in MentionBrands :
          mentions_df' = Append(mentions_df,
                [cik |-> cik, accession |-> accession, brand |-> b])
    /\ UNCHANGED <<stage, market_share, evolutionVars, brandVars, normaliseVars,
                   shareVars, pipelineVars, extractVars, crawlVars>>

\* calculate_market_share(df): an empty frame gives an empty table; otherwise
\* the frame gets its date column and the table is computed from it.
CalculateMarketShare ==
    /\ stage = "mentions"
    /\ IF mentions_df = <<>>
       THEN /\ market_share' = <<>>
            /\ UNCHANGED mentions_df
       ELSE /\ mentions_df' = with_date(mentions_df)
            /\ market_share' \in market_share_tables(with_date(mentions_df))
    /\ stage' = "market_share"
    /\ UNCHANGED <<evolutionVars, brandVars, normaliseVars,
                   shareVars, pipelineVars, extractVars, crawlVars>>

NextMarket == AppendMention \/ CalculateMarketShare

SpecMarket == InitMarket /\ [][NextMarket]_vars

-----------------------------------------------------------------------------
(* Claims about calculate_market_share *)

\* The subjects of the frame.
SubjectsOfFrame == { mentions_df[i].cik : i \in DOMAIN mentions_df }

\* A table was returned.
TableReturned == stage = "market_share" /\ market_share # Raised

Abs(n) == IF n < 0 THEN -n ELSE n

\* The sum of the percentages of a table, in hundredths of a percent.
RECURSIVE PctSum(_, _)
PctSum(table, i) ==
    IF i > Len(table) THEN 0 ELSE table[i].Market_Share_Pct + PctSum(table, i + 1)

\* C14: the percentage of each label is its count divided by the number of
\* distinct subjects, times 100, rounded to 2 decimals; the percentages of a
\* full table sum to 100.00 within the rounding error of its rows (half a
\* hundredth each).
C14_PercentageIsCountOverSubjects ==
    (TableReturned /\ mentions_df # <<>>) =>
        LET total == Cardinality(SubjectsOfFrame)
        IN  /\ \A k \in DOMAIN market_share :
                  /\ market_share[k].Market_Share_Pct =
                        RoundHalfEven(market_share[k].Issuer_Count * 10000, total)
                  /\ 2 * Abs(market_share[k].Market_Share_Pct * total
                             - market_share[k].Issuer_Count * 10000) <= total
            /\ 2 * Abs(PctSum(market_share, 1) - 10000) <= Len(market_share)

\* Subjects {1: X, 2: X, 3: Y}: the table is [(X, 2, 66.67), (Y, 1, 33.33)].
C14_Witness ==
    /\ stage = "market_share"
    /\ Len(mentions_df) = 3
    /\ \A i \in 1..3 : mentions_df[i].cik = << CodePoints[CodePoint("0") + i] >>
    /\ mentions_df[1].brand = X /\ mentions_df[2].brand = X /\ mentions_df[3].brand = Y
    /\ market_share = << [Brand |-> X, Issuer_Count |-> 2, Market_Share_Pct |-> 6667],
                         [Brand |-> Y, Issuer_Count |-> 1, Market_Share_Pct |-> 3333] >>

-----------------------------------------------------------------------------
(* extract_transfer_agents (src/sec_10k_analysis.py:219-269 and
   src/approaches/daily_index_approach/sec_10k_analysis.py:296-365) *)

\* The brand vocabulary of src/sec_10k_analysis.py, in list order.
TRANSFER_AGENT_BRANDS ==
    << <<"C", "o", "m", "p", "u", "t", "e", "r", "s", "h", "a", "r", "e">>,
       <<"B", "N", "Y", " ", "M", "e", "l", "l", "o", "n">>,
       <<"E", "q", "u", "i", "n", "i", "t", "i">>,
       <<"S", "t", "a", "t", "e", " ", "S", "t", "r", "e", "e", "t">>,
       <<"D", "S", "T">>,
       <<"B", "r", "o", "a", "d", "r", "i", "d", "g", "e">>,
       <<"A", "m", "e", "r", "i", "c", "a", "n", " ", "S", "t", "o", "c", "k", " ", "T", "r", "a", "n", "s", "f", "e", "r">>,
       <<"C", "o", "n", "t", "i", "n", "e", "n", "t", "a", "l", " ", "S", "t", "o", "c", "k", " ", "T", "r", "a", "n", "s", "f", "e", "r">>,
       <<"V", "S", "t", "o", "c", "k", " ", "T", "r", "a", "n", "s", "f", "e", "r">>,
       <<"I", "s", "s", "u", "e", "r", " ", "D", "i", "r", "e", "c", "t">>,
       <<"F", "i", "d", "e", "l", "i", "t", "y">>,
       <<"V", "a", "n", "g", "u", "a", "r", "d">> >>

\* The brand vocabulary of the daily-index approach, in list order.
TRANSFER_AGENT_BRANDS_daily_index ==
    << <<"C", "o", "m", "p", "u", "t", "e", "r", "s", "h", "a", "r", "e">>,
       <<"C", "o", "m", "p", "u", "t", "e", "r", "s", "h", "a", "r", "e", " ", "T", "r", "u", "s", "t", " ", "C", "o", "m", "p", "a", "n", "y">>,
       <<"C", "o", "m", "p", "u", "t", "e", "r", "s", "h", "a", "r", "e", " ", "C", "a", "n", "a", "d", "a">>,
       <<"A", "m", "e", "r", "i", "c", "a", "n", " ", "S", "t", "o", "c", "k", " ", "T", "r", "a", "n", "s", "f", "e", "r", " ", "&", " ", "T", "r", "u", "s", "t", " ", "C", "o", "m", "p", "a", "n", "y">>,
       <<"A", "m", "e", "r", "i", "c", "a", "n", " ", "S", "t", "o", "c", "k", " ", "T", "r", "a", "n", "s", "f", "e", "r">>,
       <<"A", "S", "T">>,
       <<"B", "r", "o", "a", "d", "r", "i", "d", "g", "e">>,
       <<"B", "r", "o", "a", "d", "r", "i", "d", "g", "e", " ", "C", "o", "r", "p", "o", "r", "a", "t", "e", " ", "I", "s", "s", "u", "e", "r", " ", "S", "o", "l", "u", "t", "i", "o", "n", "s">>,
       <<"C", "o", "n", "t", "i", "n", "e", "n", "t", "a", "l", " ", "S", "t", "o", "c", "k", " ", "T", "r", "a", "n", "s", "f", "e", "r", " ", "&", " ", "T", "r", "u", "s", "t", " ", "C", "o", "m", "p", "a", "n", "y">>,
       <<"C", "o", "n", "t", "i", "n", "e", "n", "t", "a", "l", " ", "S", "t", "o", "c", "k", " ", "T", "r", "a", "n", "s", "f", "e", "r">>,
       <<"E", "q", "u", "i", "n", "i", "t", "i">>,
       <<"E", "Q", " ", "S", "h", "a", "r", "e", "o", "w", "n", "e", "r", " ", "S", "e", "r", "v", "i", "c", "e", "s">>,
       <<"E", "Q">>,
       <<"T", "h", "e", " ", "B", "a", "n", "k", " ", "o", "f", " ", "N", "e", "w", " ", "Y", "o", "r", "k", " ", "M", "e", "l", "l", "o", "n">>,
       <<"B", "N", "Y", " ", "M", "e", "l", "l", "o", "n">>,
       <<"M", "e", "l", "l", "o", "n", " ", "I", "n", "v", "e", "s", "t", "o", "r", " ", "S", "e", "r", "v", "i", "c", "e", "s">>,
       <<"M", "e", "l", "l", "o", "n">>,
       <<"B", "a", "n", "k", " ", "o", "f", " ", "N", "e", "w", " ", "Y", "o", "r", "k">>,
       <<"W", "e", "l", "l", "s", " ", "F", "a", "r", "g", "o", " ", "S", "h", "a", "r", "e", "o", "w", "n", "e", "r", " ", "S", "e", "r", "v", "i", "c", "e", "s">>,
       <<"W", "e", "l", "l", "s", " ", "F", "a", "r", "g", "o", " ", "B", "a", "n", "k">>,
       <<"W", "e", "l", "l", "s", " ", "F", "a", "r", "g", "o">>,
       <<"S", "h", "a", "r", "e", "o", "w", "n", "e", "r", " ", "S", "e", "r", "v", "i", "c", "e", "s">>,
       <<"I", "s", "s", "u", "e", "r", " ", "D", "i", "r", "e", "c", "t">>,
       <<"V", "S", "t", "o", "c", "k", " ", "T", "r", "a", "n", "s", "f", "e", "r">>,
       <<"P", "a", "c", "i", "f", "i", "c", " ", "S", "t", "o", "c", "k", " ", "T", "r", "a", "n", "s", "f", "e", "r">>,
       <<"E", "m", "p", "i", "r", "e", " ", "S", "t", "o", "c", "k", " ", "T", "r", "a", "n", "s", "f", "e", "r">>,
       <<"S", "e", "c", "u", "r", "i", "t", "i", "e", "s", " ", "T", "r", "a", "n", "s", "f", "e", "r", " ", "C", "o", "r", "p", "o", "r", "a", "t", "i", "o", "n">>,
       <<"C", "o", "l", "o", "n", "i", "a", "l", " ", "S", "t", "o", "c", "k", " ", "T", "r", "a", "n", "s", "f", "e", "r">>,
       <<"P", "h", "i", "l", "a", "d", "e", "l", "p", "h", "i", "a", " ", "S", "t", "o", "c", "k", " ", "T", "r", "a", "n", "s", "f", "e", "r">>,
       <<"R", "e", "g", "i", "s", "t", "r", "a", "r", " ", "a", "n", "d", " ", "T", "r", "a", "n", "s", "f", "e", "r", " ", "C", "o", "m", "p", "a", "n", "y">>,
       <<"R", "&", "T">>,
       <<"U", "M", "B", " ", "B", "a", "n", "k">>,
       <<"U", "M", "B">>,
       <<"Z", "i", "o", "n", "s", " ", "B", "a", "n", "k">>,
       <<"Z", "i", "o", "n", "s", " ", "F", "i", "r", "s", "t", " ", "N", "a", "t", "i", "o", "n", "a", "l", " ", "B", "a", "n", "k">>,
       <<"S", "t", "a", "t", "e", " ", "S", "t", "r", "e", "e", "t">>,
       <<"S", "t", "a", "t", "e", " ", "S", "t", "r", "e", "e", "t", " ", "B", "a", "n", "k", " ", "a", "n", "d", " ", "T", "r", "u", "s", "t">>,
       <<"T", "S", "X", " ", "T", "r", "u", "s", "t", " ", "C", "o", "m", "p", "a", "n", "y">>,
       <<"O", "d", "y", "s", "s", "e", "y", " ", "T", "r", "u", "s", "t", " ", "C", "o", "m", "p", "a", "n", "y">>,
       <<"F", "i", "d", "e", "l", "i", "t", "y">>,
       <<"V", "a", "n", "g", "u", "a", "r", "d">>,
       <<"S", "h", "a", "r", "e", "h", "o", "l", "d", "e", "r", " ", "S", "e", "r", "v", "i", "c", "e", "s">> >>

\* The alternatives of the non-capturing group (?:...), in order.
triggers ==
    << <<"t", "r", "a", "n", "s", "f", "e", "r", " ", "a", "g", "e", "n", "t">>,
       <<"r", "e", "g", "i", "s", "t", "r", "a", "r">>,
       <<"s", "t", "o", "c", "k", " ", "t", "r", "a", "n", "s", "f", "e", "r">> >>

triggers_daily_index ==
    << <<"t", "r", "a", "n", "s", "f", "e", "r", " ", "a", "g", "e", "n", "t">>,
       <<"r", "e", "g", "i", "s", "t", "r", "a", "r">>,
       <<"s", "t", "o", "c", "k", " ", "t", "r", "a", "n", "s", "f", "e", "r">>,
       <<"t", "r", "u", "s", "t", " ", "c", "o", "m", "p", "a", "n", "y">> >>

\* pattern[:50] + "..." of the three patterns of the daily-index approach
\* (each is longer than 50 characters).
pattern_used ==
    << <<"(", "?", ":", "t", "r", "a", "n", "s", "f", "e", "r", " ", "a", "g", "e", "n", "t", "|", "r", "e", "g", "i", "s", "t", "r", "a", "r", "|", "s", "t", "o", "c", "k", " ", "t", "r", "a", "n", "s", "f", "e", "r", "|", "t", "r", "u", "s", "t", " ", "c", ".", ".", ".">>,
       <<"(", "C", "o", "m", "p", "u", "t", "e", "r", "s", "h", "a", "r", "e", "|", "C", "o", "m", "p", "u", "t", "e", "r", "s", "h", "a", "r", "e", " ", "T", "r", "u", "s", "t", " ", "C", "o", "m", "p", "a", "n", "y", "|", "C", "o", "m", "p", "u", "t", "e", ".", ".", ".">>,
       <<"\\", "b", "(", "C", "o", "m", "p", "u", "t", "e", "r", "s", "h", "a", "r", "e", "|", "C", "o", "m", "p", "u", "t", "e", "r", "s", "h", "a", "r", "e", " ", "T", "r", "u", "s", "t", " ", "C", "o", "m", "p", "a", "n", "y", "|", "C", "o", "m", "p", "u", ".", ".", ".">> >>

TESTCIK == <<"T", "E", "S", "T", "C", "I", "K">>
TESTACCESSION == <<"T", "E", "S", "T", "A", "C", "C", "E", "S", "S", "I", "O", "N">>

\* os.path.basename: what follows the last "/".
basename(path) ==
    LET slashes == { i \in DOMAIN path : path[i] = "/" }
    IN  IF slashes = {} THEN path
        ELSE SubSeq(path, (CHOOSE i \in slashes : \A j \in slashes : j <= i) + 1, Len(path))

\* str.endswith(suffix)
endswith(str, suffix) ==
    /\ Len(suffix) <= Len(str)
    /\ SubSeq(str, Len(str) - Len(suffix) + 1, Len(str)) = suffix

\* Lines 230-239: (cik, accession) from a file name '<cik>_<accession>.htm',
\* split at the first "_"; any other name gives the test placeholders.
cik_and_accession(path) ==
    LET filename == basename(path)
        base == SubSeq(filename, 1, Len(filename) - 4)
        underscores == { i \in DOMAIN base : base[i] = "_" }
    IN  IF endswith(filename, <<".", "h", "t", "m">>) /\ underscores # {}
        THEN LET u == CHOOSE i \in underscores : \A j \in underscores : i <= j
             IN  << SubSeq(base, 1, u - 1), SubSeq(base, u + 1, Len(base)) >>
        ELSE << TESTCIK, TESTACCESSION >>

\* The two extractors differ in vocabulary, trigger words, the width of the
\* lazy gap '.{0,n}?', the context radius, the patterns (by kind: 1 a
\* trigger, the gap, a brand; 2 a brand, the gap, a trigger; 3 a brand
\* between word boundaries) and in whether the pooled mentions are
\* deduplicated and carry 'pattern_used'.
\* re.IGNORECASE: the pattern's words (brands and trigger words) and the
\* text are compared lower-cased.
lowered(words) == [w \in DOMAIN words |-> lower(words[w])]

Extractor ==
    [brands |-> TRANSFER_AGENT_BRANDS, triggers |-> triggers,
     words |-> lowered(TRANSFER_AGENT_BRANDS), cues |-> lowered(triggers), gap |-> 200,
     radius |-> 100, patterns |-> <<1, 2>>, deduplicates |-> FALSE]

Extractor_daily_index ==
    [brands |-> TRANSFER_AGENT_BRANDS_daily_index, triggers |-> triggers_daily_index,
     words |-> lowered(TRANSFER_AGENT_BRANDS_daily_index),
     cues |-> lowered(triggers_daily_index), gap |-> 300, radius |-> 150, patterns |-> <<1, 2, 3>>, deduplicates |-> TRUE]


Least(set) == CHOOSE i \in set : \A j \in set : i <= j

Min(m, n) == IF m <= n THEN m ELSE n

\* The word matches the (lower-cased) text t at position i.
MatchAt(t, i, word) ==
    /\ i + Len(word) - 1 <= Len(t)
    /\ \A k \in DOMAIN word : t[i + k - 1] = word[k]

\* An alternation 'a|b|c' at position i takes the first alternative, in the
\* order written, that matches there; 0 when none does.
FirstAt(t, i, words) ==
    LET at == { w \in DOMAIN words : MatchAt(t, i, words[w]) }
    IN  IF at = {} THEN 0 ELSE Least(at)

\* '.{0,gap}?' followed by an alternation, from position e: the lazy
\* quantifier takes the fewest characters k after which an alternative
\* matches, and "." matches no newline; -1 when there is no such k.
LazyGap(t, e, gap, words) ==
    LET ks == { k \in 0..Min(gap, Len(t) - e) :
                  /\ FirstAt(t, e + k, words) # 0
                  /\ \A j \in e..(e + k - 1) : t[j] # "\n" }
    IN  IF ks = {} THEN -1 ELSE Least(ks)

\* \w of the characters of the texts.
WordChars ==
    { "0", "1", "2", "3", "4", "5", "6", "7", "8", "9", "_" }
      \cup DOMAIN LowerCase \cup { LowerCase[c] : c \in DOMAIN LowerCase }

IsWordChar(c) == c \in WordChars

\* \b before position p: exactly one of the characters on its two sides is
\* a word character (the ends of the text count as non-word).
WordBoundary(t, p) ==
    (p - 1 \in DOMAIN t /\ IsWordChar(t[p - 1])) # (p \in DOMAIN t /\ IsWordChar(t[p]))

\* A match: positions start..stop-1 of the text, group 1 at group[1]..group[2]-1;
\* start = 0 stands for no match (finditer yields none).
NoMatchObject == [start |-> 0, stop |-> 0, group |-> <<0, 0>>]

\* The match of the pattern that starts exactly at position i, as the
\* backtracking matcher finds it: alternatives in the order written, each
\* with the shortest gap that lets the rest of the pattern match.
match_at(kind, words, cues, gap, t, i) ==
    CASE kind = 1 ->
           LET alts == { w \in DOMAIN cues :
                           /\ MatchAt(t, i, cues[w])
                           /\ LazyGap(t, i + Len(cues[w]), gap, words) >= 0 }
           IN  IF alts = {} THEN NoMatchObject
               ELSE LET e == i + Len(cues[Least(alts)])
                        g == e + LazyGap(t, e, gap, words)
                        h == g + Len(words[FirstAt(t, g, words)])
                    IN  [start |-> i, stop |-> h, group |-> <<g, h>>]
      [] kind = 2 ->
           LET alts == { b \in DOMAIN words :
                           /\ MatchAt(t, i, words[b])
                           /\ LazyGap(t, i + Len(words[b]), gap, cues) >= 0 }
           IN  IF alts = {} THEN NoMatchObject
               ELSE LET e == i + Len(words[Least(alts)])
                        g == e + LazyGap(t, e, gap, cues)
                    IN  [start |-> i, stop |-> g + Len(cues[FirstAt(t, g, cues)]),
                         group |-> <<i, e>>]
      [] kind = 3 ->
           LET alts == { b \in DOMAIN words :
                           /\ MatchAt(t, i, words[b])
                           /\ WordBoundary(t, i + Len(words[b])) }
           IN  IF alts = {} \/ ~WordBoundary(t, i) THEN NoMatchObject
               ELSE LET e == i + Len(words[Least(alts)])
                    IN  [start |-> i, stop |-> e, group |-> <<i, e>>]

\* re.finditer: the non-overlapping matches from left to right; the scan
\* resumes where the previous match stopped.
RECURSIVE scan(_, _, _)
scan(found, starts, pos) ==
    IF { i \in starts : i >= pos } = {} THEN <<>>
    ELSE LET i == Least({ j \in starts : j >= pos })
         IN  <<found[i]>> \o scan(found, starts, found[i].stop)

finditer(extractor, kind, str) ==
    LET t == lower(str)
        found == [i \in DOMAIN t |->
                    match_at(kind, extractor.words, extractor.cues, extractor.gap, t, i)]
        starts == { i \in DOMAIN t : found[i].start # 0 }
    IN  scan(found, starts, 1)

\* str.replace('\n', ' ')
replace_newlines(str) == [i \in DOMAIN str |-> IF str[i] = "\n" THEN " " ELSE str[i]]

\* The context window of a match: radius characters on either side, cut at
\* the ends of the text, newlines turned to spaces, then stripped.
context(extractor, str, match) ==
    strip(replace_newlines(SubSeq(str, Max(1, match.start - extractor.radius),
                                       Min(Len(str), match.stop - 1 + extractor.radius))))

\* The mention appended for one match of the k-th pattern.
mention(extractor, file, str, k, match) ==
    LET found == [cik |-> cik_and_accession(file)[1],
                  accession |-> cik_and_accession(file)[2],
                  brand |-> SubSeq(str, match.group[1], match.group[2] - 1),
                  context |-> context(extractor, str, match),
                  file |-> file]
    IN  IF extractor.deduplicates
        THEN [cik |-> found.cik, accession |-> found.accession,
              brand |-> strip(found.brand), context |-> found.context,
              file |-> file, pattern_used |-> pattern_used[k]]
        ELSE found

mentions_of(extractor, file, str, k) ==
    LET matches == finditer(extractor, k, str)
    IN  [m \in DOMAIN matches |-> mention(extractor, file, str, k, matches[m])]

\* The loop over the patterns, taken in the given order: the mentions of
\* all patterns, pooled.
RECURSIVE pooled(_, _, _, _)
pooled(extractor, file, str, order) ==
    IF order = <<>> THEN <<>>
    ELSE mentions_of(extractor, file, str, Head(order))
           \o pooled(extractor, file, str, Tail(order))

\* The key of the deduplication: (brand.lower(), context[:50].lower()).
key(m) == << lower(m.brand), lower(Prefix(m.context, 50)) >>

\* Lines 350-361 of the daily-index approach: the first mention of every key.
RECURSIVE unique_mentions(_)
unique_mentions(ms) ==
    IF ms = <<>> THEN <<>>
    ELSE LET front == unique_mentions(SubSeq(ms, 1, Len(ms) - 1))
         IN  IF \E i \in DOMAIN front : key(front[i]) = key(Last(ms))
             THEN front
             ELSE Append(front, Last(ms))

\* extract_transfer_agents with its patterns tried in the given order.  A
\* file that cannot be read makes open() raise: the except clause returns [].
extract_in_order(extractor, file, str, order) ==
    IF ~file.readable THEN <<>>
    ELSE IF extractor.deduplicates
         THEN unique_mentions(pooled(extractor, file.path, str, order))
         ELSE pooled(extractor, file.path, str, order)

extract_transfer_agents(extractor, file, str) ==
    extract_in_order(extractor, file, str, extractor.patterns)

-----------------------------------------------------------------------------
(* The extraction of mentions from one filing document *)

MaxTextPieces == 3

Path_Filing == <<"r", "a", "w", "_", "1", "0", "k", "/", "0", "0", "0", "0", "3", "2", "0", "1", "9", "3", "_", "0", "0", "0", "0", "3", "2", "0", "1", "9", "3", "-", "2", "3", "-", "0", "0", "0", "1", "0", "6", ".", "h", "t", "m">>
Path_Test == <<"r", "a", "w", "_", "1", "0", "k", "/", "s", "a", "m", "p", "l", "e", ".", "h", "t", "m">>

Piece_Computershare == <<"C", "o", "m", "p", "u", "t", "e", "r", "s", "h", "a", "r", "e">>
Piece_is_our_transfer_agent == <<" ", "i", "s", " ", "o", "u", "r", " ", "t", "r", "a", "n", "s", "f", "e", "r", " ", "a", "g", "e", "n", "t">>
Piece_Our_registrar_is == <<"O", "u", "r", " ", "r", "e", "g", "i", "s", "t", "r", "a", "r", " ", "i", "s", " ">>
Piece_newline == <<"\n">>

\* A sentence of 154 characters, longer than either context radius.
Piece_Filler ==
    <<" ", "H", "o", "l", "d", "e", "r", "s", " ", "o", "f", " ", "r", "e", "c", "o", "r", "d", " ", "m", "a", "y", " ", "w", "r", "i", "t", "e", " ", "t", "o", " ", "t", "h", "e", " ", "o", "f", "f", "i", "c", "e", " ", "n", "a", "m", "e", "d", " ", "a", "b", "o", "v", "e", " ", "o", "r", " ", "c", "a", "l", "l", " ", "t", "h", "e", " ", "n", "u", "m", "b", "e", "r", " ", "p", "r", "i", "n", "t", "e", "d", " ", "o", "n", " ", "t", "h", "e", " ", "c", "o", "v", "e", "r", " ", "p", "a", "g", "e", " ", "o", "f", " ", "t", "h", "i", "s", " ", "a", "n", "n", "u", "a", "l", " ", "r", "e", "p", "o", "r", "t", " ", "o", "n", " ", "a", "n", "y", " ", "b", "u", "s", "i", "n", "e", "s", "s", " ", "d", "a", "y", " ", "o", "f", " ", "t", "h", "e", " ", "y", "e", "a", "r", ".">>

TextPieces ==
    { Piece_Computershare, Piece_is_our_transfer_agent, Piece_Our_registrar_is,
      Piece_newline, Piece_Filler }

\* The texts made of at most n pieces.
RECURSIVE TextsOf(_)
TextsOf(n) ==
    IF n = 0 THEN { <<>> }
    ELSE TextsOf(n - 1) \cup { t \o p : t \in TextsOf(n - 1), p \in TextPieces }

\* A document on disk: its path and whether open() and read() succeed.
HtmlFiles ==
    { [path |-> p, readable |-> r] : p \in { Path_Filing, Path_Test }, r \in BOOLEAN }

\* soup.get_text() of a readable document is any of the texts; a document
\* that cannot be read has none.
InitExtract ==
    /\ stage = "html"
    /\ html_file \in HtmlFiles
    /\ text \in IF html_file.readable THEN TextsOf(MaxTextPieces) ELSE { <<>> }
    /\ mentions = <<>>
    /\ EvolutionIdle /\ BrandIdle /\ NormaliseIdle /\ ShareIdle
    /\ PipelineIdle /\ MarketIdle
    /\ CrawlIdle

\* SEC10KAnalyzer.extract_transfer_agents of src/sec_10k_analysis.py.
ExtractTransferAgents ==
    /\ stage = "html"
    /\ mentions' = extract_transfer_agents(Extractor, html_file, text)
    /\ stage' = "extracted"
    /\ UNCHANGED <<html_file, text, evolutionVars, brandVars, normaliseVars, shareVars,
                   pipelineVars, marketVars, crawlVars>>

\* SEC10KAnalyzer.extract_transfer_agents of the daily-index approach.
ExtractTransferAgentsDailyIndex ==
    /\ stage = "html"
    /\ mentions' = extract_transfer_agents(Extractor_daily_index, html_file, text)
    /\ stage' = "extracted_daily_index"
    /\ UNCHANGED <<html_file, text, evolutionVars, brandVars, normaliseVars, shareVars,
                   pipelineVars, marketVars, crawlVars>>

NextExtract == ExtractTransferAgents \/ ExtractTransferAgentsDailyIndex

SpecExtract == InitExtract /\ [][NextExtract]_vars

-----------------------------------------------------------------------------
(* Claims about the extraction of mentions *)

\* The extractor whose call the run has made.
ExtractorOfStage ==
    IF stage = "extracted" THEN Extractor ELSE Extractor_daily_index

Extracted == stage \in {"extracted", "extracted_daily_index"}

\* The positions of the pooled matches that are the first of their key.
FirstOfKey(ms) ==
    { i \in DOMAIN ms : \A j \in 1..(i - 1) : key(ms[j]) # key(ms[i]) }

\* The subsequence of ms at the positions of the set idx, in order.
RECURSIVE Restricted(_, _)
Restricted(ms, idx) ==
    IF ms = <<>> THEN <<>>
    ELSE LET front == Restricted(SubSeq(ms, 1, Len(ms) - 1), idx)
         IN  IF Len(ms) \in idx THEN Append(front, Last(ms)) ELSE front

\* C16: the list returned by extract_transfer_agents never holds two mentions
\* with the same key (lower-cased brand, lower-cased first 50 characters of
\* the context): it is the pooled matches, in pooled order, reduced to the
\* first match of every key.
C16_ReturnedMentionsHaveDistinctKeys ==
    Extracted =>
        /\ \A i, j \in DOMAIN mentions : i < j => key(mentions[i]) # key(mentions[j])
        /\ html_file.readable =>
             LET all == pooled(ExtractorOfStage, html_file.path, text,
                               ExtractorOfStage.patterns)
             IN  mentions = Restricted(all, FirstOfKey(all))

\* The orders in which the patterns of an extractor can be tried.
OrdersOf(patterns) ==
    { order \in [DOMAIN patterns -> DOMAIN patterns] :
        \A i, j \in DOMAIN patterns : i # j => order[i] # order[j] }

\* What a list of mentions extracts: the pairs (brand, context).
ExtractedPairs(ms) == { << ms[i].brand, ms[i].context >> : i \in DOMAIN ms }

\* C17: trying the patterns in any other order extracts the same mentions,
\* brand and context; only the pattern recorded as the producer may differ.
C17_PatternOrderDoesNotChangeMentions ==
    Extracted =>
        \A order \in OrdersOf(ExtractorOfStage.patterns) :
            ExtractedPairs(extract_in_order(ExtractorOfStage, html_file, text, order))
              = ExtractedPairs(mentions)

-----------------------------------------------------------------------------
(* Several subjects' evidence in one DataFrame, then the analysis runs *)

MaxPortfolio == 3

\* Two subjects by cik, and the tickers create_final_dataset can give their
\* rows: company_lookup's ticker for the cik (the companies file may list
\* one ticker for both), one and the same on every row of a cik.
PortfolioCiks    == {"0000320193", "0000789019"}
PortfolioTickers == {"AAPL", "MSFT"}
PortfolioLabels  == Agents \cup {UNKNOWN}

PortfolioRow(cik, ticker, year, label) ==
    [cik |-> cik, ticker |-> ticker, period_end |-> year,
     form_type |-> "10-K", transfer_agent_clean |-> label]

\* Two subjects with histories [A, B, A] and [B, UNKNOWN, B].
ExamplePortfolio ==
    << PortfolioRow("0000320193", "AAPL", 2019, A),
       PortfolioRow("0000789019", "MSFT", 2019, B),
       PortfolioRow("0000320193", "AAPL", 2020, B),
       PortfolioRow("0000789019", "MSFT", 2020, UNKNOWN),
       PortfolioRow("0000320193", "AAPL", 2021, A),
       PortfolioRow("0000789019", "MSFT", 2021, B) >>

InitPortfolio ==
    /\ stage = "portfolio"
    /\ df \in { <<>>, ExamplePortfolio }
    /\ company_data = <<>>
    /\ insights = NoInsights
    /\ BrandIdle /\ NormaliseIdle /\ ShareIdle
    /\ PipelineIdle /\ ExtractIdle /\ MarketIdle
    /\ CrawlIdle

\* An evidence row of one of the subjects is appended to the DataFrame.
AppendPortfolioRow ==
    /\ stage = "portfolio"
    /\ Len(df) < MaxPortfolio
    /\ \E cik \in PortfolioCiks, ticker \in PortfolioTickers,
          year \in Years, label \in PortfolioLabels :
          /\ \A i \in DOMAIN df : df[i].cik = cik => df[i].ticker = ticker
          /\ df' = Append(df, PortfolioRow(cik, ticker, year, label))
    /\ UNCHANGED <<stage, company_data, insights, brandVars, normaliseVars, shareVars,
                   pipelineVars, extractVars, marketVars, crawlVars>>

\* analyze_transfer_agent_evolution(df) over the subjects of the DataFrame.
AnalyzePortfolio ==
    /\ stage = "portfolio"
    /\ \E data \in CompanyDataChoices(df) :
          /\ company_data' = data
          /\ insights' = analyze_transfer_agent_evolution(df, data)
    /\ stage' = "portfolio_analyzed"
    /\ UNCHANGED <<df, brandVars, normaliseVars, shareVars,
                   pipelineVars, extractVars, marketVars, crawlVars>>

NextPortfolio == AppendPortfolioRow \/ AnalyzePortfolio

SpecPortfolio == InitPortfolio /\ [][NextPortfolio]_vars

-----------------------------------------------------------------------------
(* Claims about the analysis of several subjects *)

\* The subjects of the DataFrame, and those with a state of known agent.
CiksOfFrame == { df[i].cik : i \in DOMAIN df }
CiksWithKnownState ==
    { c \in CiksOfFrame : \E i \in DOMAIN df : df[i].cik = c /\ IsKnownAgent(df[i]) }

\* C27: after the analysis current_agents holds exactly one entry for every
\* subject (cik) that has a state of known agent, the entry being the agent of
\* the subject's latest known state, so that no two subjects share an entry;
\* and companies_analyzed is the number of distinct subjects.
C27_OneCurrentEntryPerSubject ==
    stage = "portfolio_analyzed" =>
        /\ insights.companies_analyzed = Cardinality(CiksOfFrame)
        /\ Cardinality(DOMAIN insights.current_agents) = Cardinality(CiksWithKnownState)
        /\ \A cik \in CiksWithKnownState :
              LET tl == company_data[cik]
                  K  == KnownAt(tl)
              IN  /\ tl[1].ticker \in DOMAIN insights.current_agents
                  /\ insights.current_agents[tl[1].ticker]
                       = tl[NthOf(K, Cardinality(K))].transfer_agent_clean

\* The agents of the subject's known states with the earliest date, and of
\* those with the latest date, read from the DataFrame itself.
KnownRowsOf(cik) == { i \in DOMAIN df : df[i].cik = cik /\ IsKnownAgent(df[i]) }

EarliestKnownAgents(cik) ==
    { df[i].transfer_agent_clean : i \in
        { i \in KnownRowsOf(cik) :
            \A j \in KnownRowsOf(cik) : df[i].period_end <= df[j].period_end } }

LatestKnownAgents(cik) ==
    { df[i].transfer_agent_clean : i \in
        { i \in KnownRowsOf(cik) :
            \A j \in KnownRowsOf(cik) : df[j].period_end <= df[i].period_end } }

\* C28: the transitions of every subject form a chain: from_agent and
\* to_agent of a transition differ and neither is UNKNOWN or missing, the
\* to_agent of each is the from_agent of the subject's next, the first
\* from_agent is an agent of the subject's earliest known state and the last
\* to_agent an agent of its latest known state.
C28_TransitionsFormAChain ==
    stage = "portfolio_analyzed" =>
        \A cik \in CiksOfFrame :
            LET ch == ChangesOfCik(cik)
            IN  /\ \A n \in DOMAIN ch :
                      /\ ch[n].from_agent # ch[n].to_agent
                      /\ ch[n].from_agent \notin {UNKNOWN, None}
                      /\ ch[n].to_agent \notin {UNKNOWN, None}
                /\ \A n \in 1..(Len(ch) - 1) : ch[n].to_agent = ch[n + 1].from_agent
                /\ ch # <<>> =>
                      /\ ch[1].from_agent \in EarliestKnownAgents(cik)
                      /\ Last(ch).to_agent \in LatestKnownAgents(cik)

\* The two subjects of the example were analysed: the first gave the chain
\* A->B, B->A, the second, whose known states are B and B, gave no transition.
C28_Witness ==
    /\ stage = "portfolio_analyzed"
    /\ df = ExamplePortfolio
    /\ Len(ChangesOfCik("0000320193")) = 2
    /\ ChangesOfCik("0000320193")[1].from_agent = A
    /\ ChangesOfCik("0000320193")[1].to_agent = B
    /\ ChangesOfCik("0000320193")[2].from_agent = B
    /\ ChangesOfCik("0000320193")[2].to_agent = A
    /\ ChangesOfCik("0000789019") = <<>>

-----------------------------------------------------------------------------
(* Claims about applying brand_of to its own result *)

\* The labels the rules return.
BrandLabels ==
    { Brand_Computershare, Brand_State_Street, Brand_BNY_Mellon, Brand_Equiniti,
      Brand_Fidelity, Brand_Vanguard, Brand_American_Funds, Brand_DST }

\* C30: brand_of is idempotent: the brand of a name's brand is that brand
\* again, and each of the eight labels of the rules is its own brand.
C30_BrandOfIsIdempotent ==
    stage = "branded" =>
        /\ brand_of(brand) = brand
        /\ \A label \in BrandLabels : brand_of(label) = label

\* 'DST Services' came out as DST; the label 'DST' satisfies no rule (it does
\* not start with "dst ") and is returned as it is.
C30_Witness ==
    /\ stage = "branded"
    /\ name = <<"D", "S", "T", " ">> \o <<"S", "e", "r", "v", "i", "c", "e", "s">>
    /\ brand = Brand_DST
    /\ RulesSatisfiedBy(brand) = {}
    /\ brand_of(brand) = Brand_DST

-----------------------------------------------------------------------------
(* Claims about the range of normalise_agent_name *)

\* The keys of the taxonomy.
CanonicalNames == { canonical_agents[i].canonical : i \in DOMAIN canonical_agents }

\* C26: every result of normalise_agent_name is (UNKNOWN, 0) or a pair of a
\* canonical name of the taxonomy (a key, not a variant) and a score from the
\* threshold to 100; UNKNOWN never comes with a score other than 0, and an
\* empty taxonomy always gives (UNKNOWN, 0).
C26_ResultIsUnknownOrCanonicalWithScore ==
    stage = "normalised" =>
        /\ \/ normalised = Unmatched
           \/ /\ normalised.canonical_name \in CanonicalNames
              /\ ScoreGeq(normalised.score, Score(similarity_threshold, 1))
              /\ ScoreGeq(Optimal, normalised.score)
        /\ normalised.canonical_name = UNKNOWN => ScoreEq(normalised.score, Zero)
        /\ canonical_agents = <<>> => normalised = Unmatched

\* 'aab' is the variant of the canonical name 'ab': the result is the key
\* 'ab' with score 100, not the variant that matched.
C26_Witness ==
    /\ stage = "normalised"
    /\ raw_name = <<"a", "a", "b">>
    /\ canonical_agents = << [canonical |-> <<"a", "b">>, variants |-> << <<"a", "a", "b">> >>] >>
    /\ similarity_threshold = DefaultThreshold + 1
    /\ normalised.canonical_name = <<"a", "b">>
    /\ <<"a", "a", "b">> \notin CanonicalNames
    /\ ScoreEq(normalised.score, Optimal)

-----------------------------------------------------------------------------
(* Claims about a batch without evidence *)

\* C21: asked for the market share of a batch with zero evidence rows,
\* calculate_market_share ends in an error (it raises); it returns no table,
\* not even an empty one, as a result.
C21_NoEvidenceIsAnError ==
    (stage = "market_share" /\ mentions_df = <<>>) => market_share = Raised

-----------------------------------------------------------------------------
(* Claims about what a stage does to its input *)

\* C25: a stage does not modify the evidence it is given: across a call of
\* calculate_market_share the input table has the same rows, with the same
\* fields and values, as before the call.
C25_MarketShareLeavesItsInputUnchanged ==
    [][CalculateMarketShare => mentions_df' = mentions_df]_vars

-----------------------------------------------------------------------------
(* identify_10k_filings (src/sec_10k_analysis.py:93-137) *)

\* Mutant: amendments (10-K/A) are not taken.
is_10k_only(form) == form = "10-K"

\* form in ('10-K', '10-K/A')
is_10k(form) == form \in {"10-K", "10-K/A"}

\* acc.replace('-', '')
remove_dashes(str) == SelectSeq(str, LAMBDA c : c # "-")

UrlPrefix ==
    <<"h", "t", "t", "p", "s", ":", "/", "/", "w", "w", "w", ".", "s", "e", "c", ".", "g", "o", "v", "/", "A", "r", "c", "h", "i", "v", "e", "s", "/", "e", "d", "g", "a", "r", "/", "d", "a", "t", "a", "/">>

\* f"https://www.sec.gov/Archives/edgar/data/{cik_int}/{path}/{acc}.htm"
url_of(cik, acc) ==
    UrlPrefix \o str_of(int_of(cik)) \o <<"/">> \o remove_dashes(acc) \o <<"/">>
        \o acc \o <<".", "h", "t", "m">>

\* The loop over enumerate(forms) of one file, from index i (counted from 1).
RECURSIVE filings_from(_, _)
filings_from(data, i) ==
    IF i > Len(data.form) THEN <<>>
    ELSE IF is_10k(data.form[i]) /\ i <= Len(data.accessionNumber) /\ i <= Len(data.filingDate)
         THEN << [cik |-> data.cik, accession |-> data.accessionNumber[i],
                  date |-> data.filingDate[i],
                  url |-> url_of(data.cik, data.accessionNumber[i])] >>
              \o filings_from(data, i + 1)
         ELSE filings_from(data, i + 1)

\* One JSON file: a file json.load cannot read raises, which the except
\* clause answers with "continue"; a file without cik is skipped.
filings_of_file(data) ==
    IF ~data.readable THEN <<>>
    ELSE IF data.cik = <<>> THEN <<>>
    ELSE filings_from(data, 1)

\* The loop over the JSON files, in the order glob lists them.
RECURSIVE identify_10k_filings(_)
identify_10k_filings(json_files) ==
    IF json_files = <<>> THEN <<>>
    ELSE filings_of_file(Head(json_files)) \o identify_10k_filings(Tail(json_files))

-----------------------------------------------------------------------------
(* The submissions directory, then identify_10k_filings runs *)

MaxForms == 3

FormTypes == {"10-K", "8-K", "10-K/A", "10-Q"}

Cik_Apple == <<"0", "0", "0", "0", "3", "2", "0", "1", "9", "3">>

\* The accession number and the filing date of a company's i-th recent filing.
AccessionAt(i) == <<"0", "0", "0", "0", "3", "2", "0", "1", "9", "3", "-", "2", "4", "-", "0", "0", "0", "0", "1">> \o str_of(i - 1)
FilingDateAt(i) == <<"2", "0", "2", "4", "-", "0", "1", "-", "0">> \o str_of(i)

\* The arrays of the forms of at most n filings.
RECURSIVE FormArrays(_)
FormArrays(n) ==
    IF n = 0 THEN { <<>> }
    ELSE FormArrays(n - 1) \cup { Append(a, f) : a \in FormArrays(n - 1), f \in FormTypes }

\* A company's file: the accessionNumber and filingDate arrays have the length
\* of the form array or lack their last entry.
SubmissionFiles(n) ==
    { [readable |-> TRUE, cik |-> c, form |-> a,
       accessionNumber |-> [i \in 1..(Len(a) - da) |-> AccessionAt(i)],
       filingDate |-> [i \in 1..(Len(a) - dd) |-> FilingDateAt(i)]] :
        c \in {Cik_Apple, <<>>}, a \in FormArrays(n), da \in {0, 1}, dd \in {0, 1} }

\* create_test_data of src/test_pipeline.py: forms [10-K, 8-K, 10-K/A].
TestSubmission ==
    [readable |-> TRUE, cik |-> Cik_Apple, form |-> <<"10-K", "8-K", "10-K/A">>,
     accessionNumber |-> [i \in 1..3 |-> AccessionAt(i)],
     filingDate |-> [i \in 1..3 |-> FilingDateAt(i)]]

\* A file that is no JSON.
UnreadableSubmission ==
    [readable |-> FALSE, cik |-> <<>>, form |-> <<>>,
     accessionNumber |-> <<>>, filingDate |-> <<>>]

InitIdentify ==
    /\ stage = "submissions"
    /\ submissions \in
         { <<f>> : f \in SubmissionFiles(MaxForms) \cup {UnreadableSubmission} }
           \cup { <<f, g>> : f \in {TestSubmission, UnreadableSubmission},
                             g \in SubmissionFiles(MaxForms) }
    /\ filings = <<>>
    /\ MainIdle /\ WorkersIdle /\ DownloadIdle
    /\ EvolutionIdle /\ BrandIdle /\ NormaliseIdle /\ ShareIdle
    /\ PipelineIdle /\ ExtractIdle /\ MarketIdle

\* filings = self.identify_10k_filings()
IdentifyFilings ==
    /\ stage = "submissions"
    /\ filings' = identify_10k_filings(submissions)
    /\ stage' = "identified"
    /\ UNCHANGED <<submissions, mainVars, workerVars, downloadVars,
                   evolutionVars, brandVars, normaliseVars, shareVars,
                   pipelineVars, extractVars, marketVars>>

NextIdentify == IdentifyFilings

SpecIdentify == InitIdentify /\ [][NextIdentify]_vars

-----------------------------------------------------------------------------
(* Claims about identify_10k_filings *)

\* The (file, index) pairs that are a company's annual reports: the file has
\* a cik, the form at the index is 10-K or 10-K/A, and the index has an
\* accession number and a filing date.
AnnualReports ==
    { p \in (DOMAIN submissions) \X (1..MaxForms + 1) :
        LET data == submissions[p[1]]
        IN  /\ data.readable /\ data.cik # <<>>
            /\ p[2] \in DOMAIN data.form
            /\ data.form[p[2]] \in {"10-K", "10-K/A"}
            /\ p[2] \in DOMAIN data.accessionNumber
            /\ p[2] \in DOMAIN data.filingDate }

PairBefore(p, q) == p[1] < q[1] \/ (p[1] = q[1] /\ p[2] < q[2])

\* The n-th annual report, by file and then by index.
NthReport(n) ==
    CHOOSE p \in AnnualReports :
        Cardinality({ q \in AnnualReports : PairBefore(q, p) }) = n - 1

\* C23: identify_10k_filings returns exactly one record for each index of a
\* company's recent-filings arrays whose form is 10-K or 10-K/A and that has
\* an accession number and a filing date, in index order, and none for any
\* other form; for the forms [10-K, 8-K, 10-K/A] it returns 2 records.
C23_OneRecordPerAnnualReport ==
    stage = "identified" =>
        /\ Len(filings) = Cardinality(AnnualReports)
        /\ \A n \in DOMAIN filings :
              LET data == submissions[NthReport(n)[1]]
                  i    == NthReport(n)[2]
              IN  /\ filings[n].cik = data.cik
                  /\ filings[n].accession = data.accessionNumber[i]
                  /\ filings[n].date = data.filingDate[i]
        /\ submissions = <<TestSubmission>> => Len(filings) = 2

\* The file of the test, forms [10-K, 8-K, 10-K/A], gave the records of its
\* first and third filing.
C23_Witness ==
    /\ stage = "identified"
    /\ submissions = <<TestSubmission>>
    /\ Len(filings) = 2
    /\ filings[1].accession = AccessionAt(1)
    /\ filings[2].accession = AccessionAt(3)
    /\ filings[2].date = FilingDateAt(3)

-----------------------------------------------------------------------------
(* download_10k_document (src/sec_10k_analysis.py:148-188 and
   src/approaches/daily_index_approach/sec_10k_analysis.py:202-265) *)

MAX_RETRIES == 3

RAW_10K_DIR == <<"r", "a", "w", "_", "1", "0", "k">>

\* The filing whose document is downloaded.
TheFiling == [cik |-> Cik_Apple, accession |-> Accession_EDGAR]

\* os.path.join(RAW_10K_DIR, f"{filing['cik']}_{filing['accession']}.htm")
filepath ==
    RAW_10K_DIR \o <<"/">> \o TheFiling.cik \o <<"_">> \o TheFiling.accession
        \o <<".", "h", "t", "m">>

\* What a GET of the document can give: a page, HTTP 404, HTTP 429, another
\* error status (raise_for_status raises HTTPError), or no response at all
\* (a RequestException such as a timeout).
Responses == {"200", "404", "429", "500", "timeout"}

\* What the GET of index.json can give in the daily-index approach: an index
\* naming an HTML document, an index naming none, HTTP 404, or a failure.
IndexResponses == {"index", "empty_index", "404", "500", "timeout"}

\* The GET requests made for the document itself.
DocumentGets == SelectSeq(gets, LAMBDA g : g.url = "document")

\* The document is, or is not, on disk from an earlier run.
InitDownload ==
    /\ stage \in {"filing", "filing_daily_index"}
    /\ attempt = 0
    /\ on_disk \in BOOLEAN
    /\ gets = <<>>
    /\ returned = <<>>
    /\ MainIdle /\ IdentifyIdle /\ WorkersIdle
    /\ EvolutionIdle /\ BrandIdle /\ NormaliseIdle /\ ShareIdle
    /\ PipelineIdle /\ ExtractIdle /\ MarketIdle

DownloadFrame ==
    UNCHANGED <<mainVars, identifyVars, workerVars,
                evolutionVars, brandVars, normaliseVars, shareVars,
                pipelineVars, extractVars, marketVars>>

\* Lines 150-155: a document already on disk is returned without a request.
SkipIfDownloaded ==
    /\ stage = "filing"
    /\ IF on_disk
       THEN returned' = filepath /\ stage' = "returned"
       ELSE returned' = returned /\ stage' = "attempting"
    /\ UNCHANGED <<attempt, on_disk, gets>>
    /\ DownloadFrame

\* Mutant of the pass: the response is written to the file before its
\* status is looked at.
Attempt_writing_first ==
    /\ stage = "attempting"
    /\ \E response \in Responses :
          /\ gets' = Append(gets, [url |-> "document", status |-> response])
          /\ on_disk' = (response # "timeout")
          /\ IF response = "200"
             THEN /\ returned' = filepath
                  /\ stage' = "returned"
                  /\ UNCHANGED attempt
             ELSE IF attempt = MAX_RETRIES
             THEN /\ returned' = None
                  /\ stage' = "returned"
                  /\ UNCHANGED attempt
             ELSE /\ attempt' = attempt + 1
                  /\ UNCHANGED <<stage, returned>>
    /\ DownloadFrame

\* One pass of "for attempt in range(MAX_RETRIES + 1)" of lines 158-186: a
\* 429 sleeps and continues, a page is written and its path returned, any
\* other outcome is a RequestException, which returns None on the last
\* attempt and sleeps otherwise; the end of the loop returns None.
Attempt ==
    /\ stage = "attempting"
    /\ \E response \in Responses :
          /\ gets' = Append(gets, [url |-> "document", status |-> response])
          /\ IF response = "200"
             THEN /\ on_disk' = TRUE
                  /\ returned' = filepath
                  /\ stage' = "returned"
                  /\ UNCHANGED attempt
             ELSE IF attempt = MAX_RETRIES
             THEN /\ returned' = None
                  /\ stage' = "returned"
                  /\ UNCHANGED <<attempt, on_disk>>
             ELSE /\ attempt' = attempt + 1
                  /\ UNCHANGED <<stage, on_disk, returned>>
    /\ DownloadFrame

\* Daily-index approach, lines 211-239: index.json is requested first; 404,
\* a failure (caught by the outer except) and an index without an HTML
\* document return None; then a document already on disk is returned.
GetIndex ==
    /\ stage = "filing_daily_index"
    /\ \E response \in IndexResponses :
          /\ gets' = Append(gets, [url |-> "index.json", status |-> response])
          /\ IF response # "index"
             THEN returned' = None /\ stage' = "returned"
             ELSE IF on_disk
             THEN returned' = filepath /\ stage' = "returned"
             ELSE returned' = returned /\ stage' = "attempting_daily_index"
    /\ UNCHANGED <<attempt, on_disk>>
    /\ DownloadFrame

\* Daily-index approach, one pass of the loop of lines 240-263: 404 and 429
\* return None at once; the rest is as above.
AttemptDailyIndex ==
    /\ stage = "attempting_daily_index"
    /\ \E response \in Responses :
          /\ gets' = Append(gets, [url |-> "document", status |-> response])
          /\ IF response = "200"
             THEN /\ on_disk' = TRUE
                  /\ returned' = filepath
                  /\ stage' = "returned"
                  /\ UNCHANGED attempt
             ELSE IF response \in {"404", "429"} \/ attempt = MAX_RETRIES
             THEN /\ returned' = None
                  /\ stage' = "returned"
                  /\ UNCHANGED <<attempt, on_disk>>
             ELSE /\ attempt' = attempt + 1
                  /\ UNCHANGED <<stage, on_disk, returned>>
    /\ DownloadFrame

NextDownload == SkipIfDownloaded \/ Attempt \/ GetIndex \/ AttemptDailyIndex

SpecDownload == InitDownload /\ [][NextDownload]_vars

\* Each step of the function is taken once it can be: the sleeps are finite
\* and every request has a timeout.
SpecDownloadFair == SpecDownload /\ WF_vars(NextDownload)

-----------------------------------------------------------------------------
(* Claims about download_10k_document *)

\* C29: download_10k_document ends after at most MAX_RETRIES + 1 GET requests
\* for the document, whatever the server answers: no request follows a
\* successful one, the file is on disk only from before the call (and then
\* the document is not requested) or from a successful response, a path is
\* returned only when the file is on disk, and when all attempts have failed
\* the result is None.
C29_DownloadEndsWithinRetries ==
    /\ [](/\ Len(DocumentGets) <= MAX_RETRIES + 1
          /\ \A i \in 1..(Len(DocumentGets) - 1) : DocumentGets[i].status # "200"
          /\ on_disk => (DocumentGets = <<>> \/ Last(DocumentGets).status = "200")
          /\ returned = filepath => on_disk
          /\ stage = "returned" => returned \in {filepath, None}
          /\ (/\ Len(DocumentGets) = MAX_RETRIES + 1
              /\ Last(DocumentGets).status # "200") =>
                  (stage = "returned" /\ returned = None))
    /\ <>(stage = "returned")

\* Four requests, each answered with HTTP 429: None was returned and no file
\* was written.
C29_Witness ==
    /\ stage = "returned"
    /\ Len(DocumentGets) = MAX_RETRIES + 1
    /\ \A i \in DOMAIN DocumentGets : DocumentGets[i].status = "429"
    /\ returned = None
    /\ ~on_disk

-----------------------------------------------------------------------------
(* Runs of main() from its two entry points: the script's `__main__` block,
   which reads the reference files and then calls main(), and a direct call
   of main() (src/src/pipeline.py:173-318) *)

\* Most filing files the download step leaves on disk.
MaxDownloaded == 2

\* What reference/agents.yaml holds: a mapping of canonical names to lists
\* of variants; no file; text that is not YAML; an empty file, which
\* yaml.safe_load reads as None; a mapping with a canonical name whose
\* value is null instead of a list.
Taxonomies == {"valid", "missing", "unparseable", "empty", "null_variants"}

\* with open(reference_file, 'r') as f: return yaml.safe_load(f)
\* raises when the file is missing or is not YAML.
load_raises(file) == file \in {"missing", "unparseable"}

\* len(agents) raises a TypeError on None.
len_raises(file) == file = "empty"

\* normalise_agent_name reads the taxonomy for a raw name that passes
\* "if not raw_name or len(raw_name.strip()) < 3"; its loop
\* "for variant in variants" raises a TypeError on a null value.
consults_taxonomy(result) ==
    /\ Truthy(result.transfer_agent_raw)
    /\ Len(strip(result.transfer_agent_raw)) >= 3

\* normalise_parsing_results raises: at the load, at the len() it logs, or
\* at the first result that reads a taxonomy with a null value.
normalise_raises(file, results) ==
    \/ load_raises(file)
    \/ len_raises(file)
    \/ /\ file = "null_variants"
       /\ \E i \in DOMAIN results : consults_taxonomy(results[i])

\* The steps of main() that process evidence.
ProcessingSteps == {"download", "parse", "normalise"}

InitMain ==
    /\ stage \in {"script", "main"}
    /\ taxonomy \in Taxonomies
    /\ performed = <<>>
    /\ outcome = ""
    /\ IdentifyIdle /\ WorkersIdle /\ DownloadIdle
    /\ EvolutionIdle /\ BrandIdle /\ NormaliseIdle /\ ShareIdle
    /\ PipelineIdle /\ ExtractIdle /\ MarketIdle

\* The `__main__` block before main(): both reference files are loaded,
\* len(agents) and list(agents.items())[0] are printed.
LoadReferenceFiles ==
    /\ stage = "script"
    /\ IF load_raises(taxonomy) \/ len_raises(taxonomy)
       THEN stage' = "stopped" /\ outcome' = "taxonomy_error"
       ELSE stage' = "main" /\ outcome' = outcome
    /\ UNCHANGED <<taxonomy, performed, identifyVars, workerVars, downloadVars,
                   evolutionVars, brandVars, normaliseVars, shareVars,
                   pipelineVars, extractVars, marketVars>>

\* Step 0: companies = load_companies()
LoadCompanies ==
    /\ stage = "main"
    /\ performed' = Append(performed, "load_companies")
    /\ stage' = "download"
    /\ UNCHANGED <<taxonomy, outcome, identifyVars, workerVars, downloadVars,
                   evolutionVars, brandVars, normaliseVars, shareVars,
                   pipelineVars, extractVars, marketVars>>

\* Step 1: download_filings_for_company for every company; an error of a
\* download is counted and the loop goes on, so the step leaves any batch of
\* files on disk.
DownloadFilings ==
    /\ stage = "download"
    /\ \E batch \in BatchesOf(MaxDownloaded) : filing_files' = batch
    /\ performed' = Append(performed, "download")
    /\ stage' = "downloaded"
    /\ UNCHANGED <<taxonomy, outcome, parsing_results, normalised_results,
                   review_file, final_dataset, previous_run, agent_stats, shown,
                   clock, runs, identifyVars, workerVars, downloadVars,
                   evolutionVars, brandVars, normaliseVars, shareVars,
                   extractVars, marketVars>>

\* Step 2: parsing_results = parse_all_filings(logger=logger)
ParseFilings ==
    /\ stage = "downloaded"
    /\ parsing_results' = parse_all_filings(filing_files)
    /\ performed' = Append(performed, "parse")
    /\ stage' = "parsed_by_main"
    /\ UNCHANGED <<taxonomy, outcome, filing_files, normalised_results,
                   review_file, final_dataset, previous_run, agent_stats, shown,
                   clock, runs, identifyVars, workerVars, downloadVars,
                   evolutionVars, brandVars, normaliseVars, shareVars,
                   extractVars, marketVars>>

\* Step 3: normalised_results = normalise_parsing_results(parsing_results,
\* logger=logger), which loads the taxonomy itself; an exception of it ends
\* main(). With a null value in the taxonomy and no result that reads it,
\* every result is normalised without the taxonomy.
NormaliseResults ==
    /\ stage = "parsed_by_main"
    /\ IF normalise_raises(taxonomy, parsing_results)
       THEN /\ outcome' = "taxonomy_error"
            /\ stage' = "stopped"
            /\ UNCHANGED <<performed, normalised_results, review_file>>
       ELSE /\ normalised_results' = normalise_parsing_results(parsing_results)
            /\ review_file' = review_file_after(parsing_results, review_file)
            /\ performed' = Append(performed, "normalise")
            /\ stage' = "normalised"
            /\ outcome' = outcome
    /\ UNCHANGED <<taxonomy, filing_files, parsing_results, final_dataset,
                   previous_run, agent_stats, shown, clock, runs,
                   identifyVars, workerVars, downloadVars,
                   evolutionVars, brandVars, normaliseVars, shareVars,
                   extractVars, marketVars>>

\* Steps 4 and 5 are those of the runs over the files on disk.
NextMain ==
    \/ LoadReferenceFiles
    \/ LoadCompanies
    \/ DownloadFilings
    \/ ParseFilings
    \/ NormaliseResults
    \/ CreateFinalDataset
    \/ PrintStatistics

SpecMain == InitMain /\ [][NextMain]_vars

\* C22: a missing or malformed reference taxonomy stops the run of main()
\* before any processing step: when a run ends with the taxonomy's error,
\* neither the download, nor the parsing, nor the normalisation was
\* performed in it.
C22_TaxonomyFailureStopsBeforeProcessing ==
    outcome = "taxonomy_error" =>
        \A i \in DOMAIN performed : performed[i] \notin ProcessingSteps

-----------------------------------------------------------------------------
(* download_all_10ks, analyze_all_documents and calculate_market_share as
   run_full_analysis calls them (src/sec_10k_analysis.py:190-217, 271-315,
   346-353) *)

\* Most filings handed to download_all_10ks.
MaxFilings == 3

\* ThreadPoolExecutor(max_workers=max_workers), max_workers: int = 3
max_workers == 3

\* Two accessions that begin with the same day.
Accession_20230115_2 == <<"2", "0", "2", "3", "0", "1", "1", "5", "-", "0", "0", "0", "2">>

\* What the server holds for a filing: a document naming one agent.
Document_X == Piece_Our_registrar_is \o X
Document_Y == Piece_Our_registrar_is \o Y

\* The filings: two subjects, the first with two filings of one day, the
\* second with one of that day and a later one; the field document is the
\* response.text of the filing's url.
FilingKeys ==
    { << <<"1">>, Accession_20230115 >>, << <<"1">>, Accession_20230115_2 >>,
      << <<"2">>, Accession_20230115 >>, << <<"2">>, Accession_20240402 >> }
WorkerFilings ==
    { [cik |-> k[1], accession |-> k[2], document |-> d] :
        k \in FilingKeys, d \in { Document_X, Document_Y } }

\* The lists of at most n filings, no two of one cik and accession.
RECURSIVE FilingLists(_)
FilingLists(n) ==
    IF n = 0 THEN { <<>> }
    ELSE LET fewer == FilingLists(n - 1)
         IN  fewer \cup
             { l \in { Append(u, f) : u \in fewer, f \in WorkerFilings } :
                 \A i, j \in DOMAIN l :
                    i < j => <<l[i].cik, l[i].accession>> # <<l[j].cik, l[j].accession>> }

\* os.path.join(RAW_10K_DIR, f"{filing['cik']}_{filing['accession']}.htm")
filepath_of(filing) ==
    RAW_10K_DIR \o <<"/">> \o filing.cik \o <<"_">> \o filing.accession
        \o <<".", "h", "t", "m">>

\* The position, in the submitted filings, of the filing a path was made of.
index_of(submitted, path) ==
    CHOOSE i \in DOMAIN submitted : filepath_of(submitted[i]) = path

\* The file download_10k_document wrote at a path, and its text.
html_at(path) == [path |-> path, readable |-> TRUE]
text_at(submitted, path) == submitted[index_of(submitted, path)].document

\* analyze_all_documents: all_mentions.extend(mentions), file after file.
RECURSIVE analyze_all_documents(_, _)
analyze_all_documents(submitted, html_files) ==
    IF html_files = <<>> THEN <<>>
    ELSE extract_transfer_agents(Extractor, html_at(Head(html_files)),
                                 text_at(submitted, Head(html_files)))
         \o analyze_all_documents(submitted, Tail(html_files))

\* The futures a worker of the pool is executing: the workers take the
\* submitted tasks first in, first out, at most max_workers at a time.
executing(futures) ==
    { i \in futures : Cardinality({ j \in futures : j < i }) < max_workers }

\* run_full_analysis leaves when there is no filing; otherwise every filing
\* is submitted to the pool.
InitWorkers ==
    /\ stage = "downloading"
    /\ filings \in FilingLists(MaxFilings) \ { <<>> }
    /\ running = DOMAIN filings
    /\ downloaded_files = <<>>
    /\ submissions = <<>>
    /\ MainIdle /\ DownloadIdle
    /\ EvolutionIdle /\ BrandIdle /\ NormaliseIdle /\ ShareIdle
    /\ PipelineIdle /\ ExtractIdle /\ MarketIdle

\* "for future in as_completed(future_to_filing)": one of the executing
\* downloads completes, with the path of its file or with None, and
\* "if filepath: downloaded_files.append(filepath)".
CompleteDownload ==
    /\ stage = "downloading"
    /\ \E i \in executing(running) :
          \E result \in { filepath_of(filings[i]), None } :
             /\ running' = running \ {i}
             /\ downloaded_files' =
                   IF result # None THEN Append(downloaded_files, result)
                   ELSE downloaded_files
    /\ UNCHANGED <<stage, filings, submissions, mainVars, downloadVars,
                   evolutionVars, brandVars, normaliseVars, shareVars,
                   pipelineVars, extractVars, marketVars>>

\* mentions_df = self.analyze_all_documents(downloaded_files)
AnalyzeAllDocuments ==
    /\ stage = "downloading"
    /\ running = {}
    /\ mentions_df' = analyze_all_documents(filings, downloaded_files)
    /\ stage' = "mentions"
    /\ UNCHANGED <<market_share, crawlVars, evolutionVars, brandVars,
                   normaliseVars, shareVars, pipelineVars, extractVars>>

NextWorkers ==
    \/ CompleteDownload
    \/ AnalyzeAllDocuments
    \/ CalculateMarketShare

SpecWorkers == InitWorkers /\ [][NextWorkers]_vars

\* The downloaded files in the order their filings were submitted.
RECURSIVE in_submission_order(_, _)
in_submission_order(submitted, paths) ==
    IF paths = {} THEN <<>>
    ELSE LET first == CHOOSE p \in paths :
                         \A q \in paths : index_of(submitted, p) <= index_of(submitted, q)
         IN  <<first>> \o in_submission_order(submitted, paths \ {first})

\* The frame analyze_all_documents makes when the downloads complete in the
\* order they were submitted.
FrameInSubmissionOrder ==
    analyze_all_documents(filings,
        in_submission_order(filings, { downloaded_files[i] : i \in DOMAIN downloaded_files }))

\* C24: the market-share table is the same for every completion order of the
\* workers: the tables calculate_market_share can return for the frame of
\* this run are those it can return when the same documents complete in
\* submission order.
C24_TableIsTheSameForEveryCompletionOrder ==
    stage = "market_share" =>
        market_share_tables(with_date(mentions_df))
            = market_share_tables(with_date(FrameInSubmissionOrder))

=============================================================================
